---- MODULE Spec2Model ----
(***************************************************************************)
(* rWeb: a browser client (rWeb_client.py) and a content server            *)
(* (rWeb_server.py) exchanging pages over LXMF messages.                   *)
(*                                                                         *)
(* Text is modelled as a sequence of atoms.  An atom is a run of           *)
(* characters that no pattern searched for by the code can split: "HTML",  *)
(* "[", "</head>", "Serving:", a file stem, an extension, a hex byte.      *)
(* The Python string methods the code uses (in, startswith, replace,       *)
(* strip, split, lower) are defined on such sequences.                     *)
(***************************************************************************)
EXTENDS Integers, Sequences, FiniteSets, TLC

(***************************************************************************)
(* Bounds of the model.                                                    *)
(***************************************************************************)
MaxTime == 1
MaxRequests == 2
MaxBookmarks == 2
\* longest page content of SpecPage, in pieces
MaxPieces == 3

(***************************************************************************)
(* Python string operations on sequences of atoms.                         *)
(***************************************************************************)
Whitespace == {" ", "\n", "\r", "\t"}

StartsWith(s, p) ==
    /\ Len(p) <= Len(s)
    /\ SubSeq(s, 1, Len(p)) = p

EndsWith(s, p) ==
    /\ Len(p) <= Len(s)
    /\ SubSeq(s, Len(s) - Len(p) + 1, Len(s)) = p

Contains(s, p) ==
    \E i \in 1..(Len(s) - Len(p) + 1) : SubSeq(s, i, i + Len(p) - 1) = p

\* index of the first occurrence of p in s, 0 when there is none
Find(s, p) ==
    IF Contains(s, p)
    THEN CHOOSE i \in 1..(Len(s) - Len(p) + 1) :
            /\ SubSeq(s, i, i + Len(p) - 1) = p
            /\ \A j \in 1..(i - 1) : SubSeq(s, j, j + Len(p) - 1) # p
    ELSE 0

RECURSIVE Replace(_, _, _)
\* str.replace(old, new): every non-overlapping occurrence, left to right
Replace(s, old, new) ==
    IF Len(old) = 0 \/ ~Contains(s, old) THEN s
    ELSE LET i == Find(s, old)
         IN  SubSeq(s, 1, i - 1) \o new \o
             Replace(SubSeq(s, i + Len(old), Len(s)), old, new)

RECURSIVE LStrip(_)
LStrip(s) ==
    IF Len(s) > 0 /\ Head(s) \in Whitespace THEN LStrip(Tail(s)) ELSE s

RECURSIVE RStrip(_)
RStrip(s) ==
    IF Len(s) > 0 /\ s[Len(s)] \in Whitespace
    THEN RStrip(SubSeq(s, 1, Len(s) - 1)) ELSE s

Strip(s) == RStrip(LStrip(s))

\* s.split(sep, 1): a sequence of one or two parts
SplitOnce(s, sep) ==
    IF Contains(s, sep)
    THEN LET i == Find(s, sep)
         IN  <<SubSeq(s, 1, i - 1), SubSeq(s, i + Len(sep), Len(s))>>
    ELSE <<s>>

RECURSIVE Split(_, _)
\* s.split(sep): all the parts
Split(s, sep) ==
    IF Contains(s, sep)
    THEN LET i == Find(s, sep)
         IN  <<SubSeq(s, 1, i - 1)>> \o Split(SubSeq(s, i + Len(sep), Len(s)), sep)
    ELSE <<s>>

LowerAtom(a) ==
    CASE a = "A1" -> "a1"
      [] a = "B2" -> "b2"
      [] a = "C3" -> "c3"
      [] a = "D4" -> "d4"
      [] a = ".HTML" -> ".html"
      [] a = ".PNG" -> ".png"
      [] a = "INDEX" -> "index"
      [] a = "LIST" -> "list"
      [] a = "GET:" -> "get:"
      [] OTHER -> a

Lower(s) == [i \in 1..Len(s) |-> LowerAtom(s[i])]

RECURSIVE Concat(_)
\* ''.join(parts)
Concat(parts) ==
    IF Len(parts) = 0 THEN <<>> ELSE Head(parts) \o Concat(Tail(parts))

(***************************************************************************)
(* Destination hashes and their textual forms.                             *)
(***************************************************************************)
ServerHash == <<"a1", "b2">>
OtherHash  == <<"c3", "d4">>
ClientHash == <<"e5", "f6">>
PeerHashes == {ServerHash, OtherHash}
AllHashes  == PeerHashes \cup {ClientHash}

HexBytes == {"a1", "b2", "c3", "d4", "e5", "f6", "A1", "B2", "C3", "D4"}

\* RNS.prettyhexrep: the hex digits of the hash between "<" and ">"
PrettyHexRep(h) == <<"<">> \o h \o <<">">>

\* RNS.hexrep: the hex bytes separated by ":"
HexRep(h) == <<h[1], ":", h[2]>>

LxmfScheme == <<"lxmf:", "/", "/">>

\* bytes.fromhex: the bytes of a hex string, or "ValueError"
FromHex(s) ==
    IF Len(s) > 0 /\ \A i \in 1..Len(s) : s[i] \in HexBytes
    THEN Lower(s) ELSE <<"ValueError">>

(***************************************************************************)
(* Protocol constants.                                                     *)
(***************************************************************************)
FIELD_HTML_CONTENT == 10
FIELD_HTML_REQUEST == 11
FIELD_FILE_ATTACHMENTS == 2

(***************************************************************************)
(* State.                                                                  *)
(***************************************************************************)
VARIABLES
    discovered_servers,  \* client: key -> [name, pages, last_seen]
    known_peers,         \* client: set of keys
    pending_requests,    \* client: key -> [type, page, time]
    socketio,            \* client: TRUE once main() has attached the UI channel
    history,             \* client: sequence of history entries
    html_cache,          \* client: html_cache/ directory, filename -> content
    files_cache,         \* client: cache/ directory, filename -> bytes
    discovered_file,     \* client: discovered_servers.json, [state, data]
    bookmarks,           \* client: sequence of bookmarks [name, hash, added]
    bookmarks_file,      \* client: bookmarks.json, [state, data]
    history_file,        \* client: history.json, [state, data]
    threads,             \* client: where each of its threads stands inside an
                         \* operation, and the locals it holds there
    pages_dir,           \* server: pages/ directory, filename -> content
    requests_served,     \* server: counter
    access_log,          \* server: access.log, sequence of lines
    auto_announce_interval, \* server: seconds between periodic announces
    auto_announce_enabled,  \* server: whether the scheduler announces
    last_announce,       \* server: time of the last successful announce, 0 if none
    config_file,         \* server: config.json, [state, interval, enabled]
    announces,           \* server: its announce attempts in order, [time, ok]
    announce_pc,         \* server: "idle" before run(), then "check" or "sleep"
    net,                 \* messages handed to the substrate and not yet delivered
    nreq,                \* number of requests the UI has issued
    now,                 \* wall clock
    emitted,             \* events emitted by the last operation, in order
    outbox,              \* messages the last operation handed over, in order
    inbox,               \* the message the last delivery callback was called with
    returned,            \* what the last operation returned to its caller
    lastOp               \* the code path the last operation took

registryVars == <<discovered_servers, known_peers, discovered_file>>
cacheVars == <<history, html_cache, files_cache, bookmarks>>
storageFiles == <<bookmarks_file, history_file>>
announceVars == <<auto_announce_interval, auto_announce_enabled, last_announce,
                  config_file, announces, announce_pc>>
serverVars == <<pages_dir, requests_served, access_log, announceVars>>

vars == <<discovered_servers, known_peers, pending_requests, socketio, history,
          html_cache, files_cache, discovered_file, bookmarks, bookmarks_file,
          history_file, threads, pages_dir, requests_served,
          access_log, announceVars, net, nreq, now, emitted, outbox, inbox,
          returned, lastOp>>

EmptyMap == [k \in {} |-> 0]

Put(m, k, v) == [x \in (DOMAIN m) \cup {k} |-> IF x = k THEN v ELSE m[x]]

Drop(m, k) == [x \in (DOMAIN m) \ {k} |-> m[x]]

\* json.dump of the registry into discovered_servers.json
Written(registry) == [state |-> "ok", data |-> registry]

\* LXMFHTMLBrowser._save_data: the three files, in the order written
SaveData ==
    /\ bookmarks_file' = Written(bookmarks')
    /\ history_file' = Written(history')
    /\ discovered_file' = Written(discovered_servers')

(***************************************************************************)
(* Announces.                                                              *)
(***************************************************************************)
HtmlMarker == <<"[", "HTML", "]">>

UnknownServer == <<"Unknown Server">>

CanonicalName == <<"[", "HTML", "]", " ", "Node">>

DisplayNames ==
    { CanonicalName,
      <<"[", "HTML", "]">>,
      <<"HTML", "5">>,
      <<"Node">> }

\* app_data of an announce: none, bytes that decode to no name, or a name
NoAppData == <<"<none>">>
Undecodable == <<"<undecodable>">>
AppData == DisplayNames \cup {NoAppData, Undecodable}

\* the server_discovered event
ServerDiscovered(peer_hash_str, server_name) ==
    [type |-> "server_discovered", hash |-> peer_hash_str, name |-> server_name]

\* _handle_discovery without the known_peers test: every announce inserts
HandleDiscoveryAlwaysNew(peer_hash_str, display_name) ==
    LET stripped == Strip(Replace(display_name, HtmlMarker, <<>>))
        server_name == IF Len(stripped) = 0 THEN UnknownServer ELSE stripped
    IN  /\ discovered_servers' =
             Put(discovered_servers, peer_hash_str,
                 [name |-> server_name, pages |-> <<>>, last_seen |-> now])
        /\ known_peers' = known_peers \cup {peer_hash_str}
        /\ SaveData
        /\ emitted' = IF socketio
                      THEN <<ServerDiscovered(peer_hash_str, server_name)>>
                      ELSE <<>>
        /\ lastOp' = "discovery_new"

\* _handle_discovery that also takes the name of a known peer from the announce
HandleDiscoveryRefreshingName(peer_hash_str, display_name) ==
    LET stripped == Strip(Replace(display_name, HtmlMarker, <<>>))
        server_name == IF Len(stripped) = 0 THEN UnknownServer ELSE stripped
    IN  IF peer_hash_str \in known_peers
        THEN /\ IF peer_hash_str \in DOMAIN discovered_servers
                THEN /\ discovered_servers' =
                          [discovered_servers EXCEPT ![peer_hash_str].last_seen = now,
                                                     ![peer_hash_str].name = server_name]
                     /\ SaveData
                ELSE UNCHANGED <<discovered_servers, discovered_file, storageFiles>>
             /\ emitted' = <<>>
             /\ lastOp' = "discovery_known"
             /\ UNCHANGED known_peers
        ELSE /\ discovered_servers' =
                  Put(discovered_servers, peer_hash_str,
                      [name |-> server_name, pages |-> <<>>, last_seen |-> now])
             /\ known_peers' = known_peers \cup {peer_hash_str}
             /\ SaveData
             /\ emitted' = IF socketio
                           THEN <<ServerDiscovered(peer_hash_str, server_name)>>
                           ELSE <<>>
             /\ lastOp' = "discovery_new"

\* LXMFHTMLBrowser._handle_discovery
HandleDiscovery(peer_hash_str, display_name) ==
    LET stripped == Strip(Replace(display_name, HtmlMarker, <<>>))
        server_name == IF Len(stripped) = 0 THEN UnknownServer ELSE stripped
    IN  IF peer_hash_str \in known_peers
        THEN /\ IF peer_hash_str \in DOMAIN discovered_servers
                THEN /\ discovered_servers' =
                          [discovered_servers EXCEPT ![peer_hash_str].last_seen = now]
                     /\ SaveData
                ELSE UNCHANGED <<discovered_servers, discovered_file, storageFiles>>
             /\ emitted' = <<>>
             /\ lastOp' = "discovery_known"
             /\ UNCHANGED known_peers
        ELSE /\ discovered_servers' =
                  Put(discovered_servers, peer_hash_str,
                      [name |-> server_name, pages |-> <<>>, last_seen |-> now])
             /\ known_peers' = known_peers \cup {peer_hash_str}
             /\ SaveData
             /\ emitted' = IF socketio
                           THEN <<ServerDiscovered(peer_hash_str, server_name)>>
                           ELSE <<>>
             /\ lastOp' = "discovery_new"

\* the marker test of received_announce looking for the token [HTML] only
IsHtmlServerNameTokenOnly(display_name) == Contains(display_name, HtmlMarker)

\* the marker test of received_announce
IsHtmlServerName(display_name) ==
    Contains(display_name, HtmlMarker) \/ Contains(display_name, <<"HTML">>)

\* HTMLServerAnnounceHandler.received_announce
ReceivedAnnounce(destination_hash, app_data) ==
    /\ UNCHANGED <<cacheVars, serverVars, inbox, threads>>
    /\ IF /\ destination_hash # ClientHash
          /\ app_data \notin {NoAppData, Undecodable}
          /\ IsHtmlServerName(app_data)
       THEN HandleDiscovery(PrettyHexRep(destination_hash), app_data)
       ELSE /\ emitted' = <<>>
            /\ lastOp' = "announce_ignored"
            /\ UNCHANGED <<registryVars, storageFiles>>
    /\ outbox' = <<>>
    /\ returned' = "None"
    /\ UNCHANGED <<pending_requests, socketio, net, nreq, now>>

(***************************************************************************)
(* UI operations (the Flask routes run once main() has attached socketio). *)
(***************************************************************************)
\* remove_server that forgets to drop the hash from known_peers
RemoveServerKeepsKnown(server_hash) ==
    /\ socketio
    /\ UNCHANGED <<cacheVars, serverVars, inbox, threads>>
    /\ discovered_servers' =
         IF server_hash \in DOMAIN discovered_servers
         THEN Drop(discovered_servers, server_hash) ELSE discovered_servers
    /\ SaveData
    /\ emitted' = <<>>
    /\ outbox' = <<>>
    /\ returned' = "True"
    /\ lastOp' = "remove_server"
    /\ UNCHANGED <<known_peers, pending_requests, socketio, net, nreq, now>>

\* remove_server (/api/server/remove)
RemoveServer(server_hash) ==
    /\ socketio
    /\ UNCHANGED <<cacheVars, serverVars, inbox, threads>>
    /\ discovered_servers' =
         IF server_hash \in DOMAIN discovered_servers
         THEN Drop(discovered_servers, server_hash) ELSE discovered_servers
    /\ known_peers' = known_peers \ {server_hash}
    /\ SaveData
    /\ emitted' = <<>>
    /\ outbox' = <<>>
    /\ returned' = "True"
    /\ lastOp' = "remove_server"
    /\ UNCHANGED <<pending_requests, socketio, net, nreq, now>>

\* the hash strings the UI and other callers of the API pass
RemoveInputs == {PrettyHexRep(h) : h \in PeerHashes} \cup PeerHashes

(***************************************************************************)
(* Messages.  fields maps field numbers to values; net is a bag.           *)
(***************************************************************************)
ValueError == <<"ValueError">>

Message(dst, src, content, fields) ==
    [dst |-> dst, src |-> src, content |-> content, fields |-> fields]

BagAdd(b, m) ==
    [x \in (DOMAIN b) \cup {m} |-> IF x \in DOMAIN b
                                   THEN (IF x = m THEN b[x] + 1 ELSE b[x])
                                   ELSE 1]

BagRemove(b, m) ==
    [x \in {y \in DOMAIN b : y # m \/ b[y] > 1} |->
        IF x = m THEN b[x] - 1 ELSE b[x]]

RECURSIVE BagAddAll(_, _)
BagAddAll(b, msgs) ==
    IF Len(msgs) = 0 THEN b ELSE BagAddAll(BagAdd(b, Head(msgs)), Tail(msgs))

(***************************************************************************)
(* Client requests.                                                        *)
(***************************************************************************)
\* the outcomes of recalling the destination identity and handing the
\* message over: handed over, identity not recalled after the path request,
\* or an exception raised by the substrate
SendOutcomes == {"sent", "nopath", "error"}

\* when the identity of the destination becomes recallable, in tenths of a
\* second after the call: at once, during the wait, or not within reach
NeverRecalled == 999

Arrivals == {0, 4, 20, 21, 149, 150, NeverRecalled}

\* max_wait = 15 and wait_interval = 0.5 of _send_html and _send_file, the
\* time.sleep(2) of _send_simple_message, request_page and _request_page_list,
\* the time.sleep(0.3) after the client's announce; tenths of a second
LongWaitTenths == 150
PollTenths == 5
ShortWaitTenths == 20
SettleTenths == 3

\* the while loop of _send_html and _send_file: recall, then a path request
\* and a recall after every wait_interval until max_wait has gone
PolledWait(arrival) ==
    IF arrival = 0 THEN [found |-> TRUE, slept |-> 0, path_requests |-> 0]
    ELSE IF arrival <= LongWaitTenths
    THEN [found |-> TRUE,
          slept |-> PollTenths * ((arrival + PollTenths - 1) \div PollTenths),
          path_requests |-> 1]
    ELSE [found |-> FALSE, slept |-> LongWaitTenths, path_requests |-> 1]

\* recall, then a path request, one time.sleep(2) and one more recall
SingleWait(arrival, before) ==
    IF arrival <= before THEN [found |-> TRUE, slept |-> before, path_requests |-> 0]
    ELSE [found |-> arrival <= before + ShortWaitTenths,
          slept |-> before + ShortWaitTenths, path_requests |-> 1]

\* what a send that waited has as its outcome
WaitOutcome(wait) == IF wait.found THEN "sent" ELSE "nopath"

\* the seconds the clock can show after sleeping so many tenths
ClockAfter(t, tenths) == {t + (tenths \div 10), t + ((tenths + 9) \div 10)}

\* the first lines of request_page and _request_page_list
StripBrackets(server_hash) ==
    IF StartsWith(server_hash, <<"<">>) /\ EndsWith(server_hash, <<">">>)
    THEN SubSeq(server_hash, 2, Len(server_hash) - 1)
    ELSE server_hash

\* request_page: the pending key it derives from its server_hash argument
RequestKey(server_hash) ==
    LET s1 == StripBrackets(server_hash)
        s2 == IF StartsWith(s1, LxmfScheme)
              THEN SubSeq(s1, Len(LxmfScheme) + 1, Len(s1)) ELSE s1
    IN  IF Contains(s2, <<"/">>) THEN SplitOnce(s2, <<"/">>)[1] ELSE s2

\* request_page: the page name it requests
RequestName(server_hash, page_name) ==
    LET s1 == StripBrackets(server_hash)
        s2 == IF StartsWith(s1, LxmfScheme)
              THEN SubSeq(s1, Len(LxmfScheme) + 1, Len(s1)) ELSE s1
        p1 == IF Contains(s2, <<"/">>) /\ Len(page_name) = 0
              THEN SplitOnce(s2, <<"/">>)[2] ELSE page_name
    IN  IF Len(p1) = 0 THEN <<"index">> ELSE p1

\* LXMFHTMLBrowser.request_page, but for the time it takes
RequestPageSteps(server_hash_arg, page_name_arg, outcome) ==
    LET server_hash == RequestKey(server_hash_arg)
        page_name == RequestName(server_hash_arg, page_name_arg)
        dest_hash == FromHex(Replace(server_hash, <<":">>, <<>>))
        msg == Message(dest_hash, ClientHash, <<"GET:">> \o page_name,
                       Put(EmptyMap, FIELD_HTML_REQUEST, page_name))
    IN  /\ socketio
        /\ nreq < MaxRequests
        /\ nreq' = nreq + 1
        /\ IF dest_hash = ValueError
           THEN /\ lastOp' = "request_page_badhash"
                /\ returned' = "False"
                /\ outbox' = <<>>
                /\ UNCHANGED <<pending_requests, net>>
           ELSE /\ pending_requests' =
                     Put(pending_requests, server_hash,
                         [type |-> "page", page |-> page_name, time |-> now])
                /\ outbox' = IF outcome = "sent" THEN <<msg>> ELSE <<>>
                /\ net' = BagAddAll(net, outbox')
                /\ returned' = IF outcome = "sent" THEN "True" ELSE "False"
                /\ lastOp' = "request_page_" \o outcome
        /\ emitted' = <<>>
        /\ UNCHANGED <<registryVars, storageFiles, threads, cacheVars, serverVars, inbox, socketio>>

\* LXMFHTMLBrowser.request_page within one second of the clock
RequestPage(server_hash_arg, page_name_arg, outcome) ==
    /\ RequestPageSteps(server_hash_arg, page_name_arg, outcome)
    /\ UNCHANGED now

\* LXMFHTMLBrowser._request_page_list, but for the time it takes
RequestPageListSteps(server_hash_arg, outcome) ==
    LET server_hash == StripBrackets(server_hash_arg)
        dest_hash == FromHex(Replace(server_hash, <<":">>, <<>>))
        msg == Message(dest_hash, ClientHash, <<"list">>, EmptyMap)
    IN  /\ socketio
        /\ nreq < MaxRequests
        /\ nreq' = nreq + 1
        /\ IF dest_hash = ValueError
           THEN /\ lastOp' = "request_list_badhash"
                /\ outbox' = <<>>
                /\ UNCHANGED <<pending_requests, net>>
           ELSE /\ pending_requests' =
                     Put(pending_requests, server_hash,
                         [type |-> "list", time |-> now])
                /\ outbox' = IF outcome = "sent" THEN <<msg>> ELSE <<>>
                /\ net' = BagAddAll(net, outbox')
                /\ lastOp' = "request_list_" \o outcome
        /\ returned' = "None"
        /\ emitted' = <<>>
        /\ UNCHANGED <<registryVars, storageFiles, threads, cacheVars, serverVars, inbox, socketio>>

\* LXMFHTMLBrowser._request_page_list (/api/refresh_server) within one second
\* of the clock
RequestPageList(server_hash_arg, outcome) ==
    /\ RequestPageListSteps(server_hash_arg, outcome)
    /\ UNCHANGED now

(***************************************************************************)
(* Server: file names, the file system around the pages directory.         *)
(***************************************************************************)
AboutHtml == <<"about", ".html">>
HelpHtml == <<"help", ".html">>
PhotoPng == <<"photo", ".png">>
NotesConf == <<"notes", ".conf">>
MissingHtml == <<"missing", ".html">>

\* atoms in the order Python compares the strings they stand for
AtomOrder ==
    <<".7z", ".HTML", ".PNG", ".bmp", ".conf", ".gif", ".htm", ".html", ".jpeg",
      ".jpg", ".md", ".pdf", ".png", ".rar", ".txt", ".webp", ".zip",
      "LOGO", "about", "help", "missing", "notes", "photo", "readme">>

AtomRank(a) ==
    IF \E i \in 1..Len(AtomOrder) : AtomOrder[i] = a
    THEN CHOOSE i \in 1..Len(AtomOrder) : AtomOrder[i] = a
    ELSE 0

ExtAtoms == {a \in {AtomOrder[i] : i \in 1..Len(AtomOrder)} : AtomRank(a) < AtomRank("LOGO")}

RECURSIVE NameLess(_, _)
\* a < b for two file names
NameLess(a, b) ==
    IF Len(a) = 0 THEN Len(b) > 0
    ELSE IF Len(b) = 0 THEN FALSE
    ELSE IF Head(a) = Head(b) THEN NameLess(Tail(a), Tail(b))
    ELSE AtomRank(Head(a)) < AtomRank(Head(b))

RECURSIVE Sorted(_)
\* sorted(names) of a set of file names
Sorted(names) ==
    IF names = {} THEN <<>>
    ELSE LET least == CHOOSE n \in names : \A m \in names \ {n} : NameLess(n, m)
         IN  <<least>> \o Sorted(names \ {least})

\* os.path.basename
Basename(path) ==
    LET parts == Split(path, <<"/">>) IN parts[Len(parts)]

\* os.path.splitext(name)[1]
Ext(name) ==
    IF Len(name) >= 2 /\ name[Len(name)] \in ExtAtoms
    THEN <<name[Len(name)]>> ELSE <<>>

\* LXMFHTMLServer.supported_extensions (the keys)
SupportedExtensions ==
    { <<".html">>, <<".htm">>, <<".txt">>, <<".md">>, <<".jpg">>, <<".jpeg">>,
      <<".png">>, <<".gif">>, <<".bmp">>, <<".webp">>, <<".zip">>, <<".rar">>,
      <<".7z">>, <<".pdf">> }

\* files of the storage root, next to pages/
StorageFiles == [n \in {<<"identity">>} |-> <<"private-key">>]

NoFile == [kind |-> "none", content |-> <<>>]

RECURSIVE Walk(_, _, _)
\* the entry a list of path components leads to, starting in a directory
Walk(dir, comps, pages) ==
    IF Len(comps) = 0 THEN [kind |-> "dir", content |-> <<>>]
    ELSE LET c == Head(comps)
             rest == Tail(comps)
         IN  IF c = <<>> \/ c = <<".">> THEN Walk(dir, rest, pages)
             ELSE IF c = <<"..">>
                  THEN Walk(IF dir = "pages" THEN "storage" ELSE "root", rest, pages)
             ELSE IF dir = "pages" /\ c \in DOMAIN pages
                  THEN (IF Len(rest) = 0
                        THEN [kind |-> "file", content |-> pages[c]] ELSE NoFile)
             ELSE IF dir = "storage" /\ c = <<"pages">>
                  THEN Walk("pages", rest, pages)
             ELSE IF dir = "storage" /\ c \in DOMAIN StorageFiles
                  THEN (IF Len(rest) = 0
                        THEN [kind |-> "file", content |-> StorageFiles[c]]
                        ELSE NoFile)
             ELSE IF dir = "root" /\ c = <<"srv">>
                  THEN Walk("storage", rest, pages)
             ELSE NoFile

\* the entry at os.path.join(self.pages_path, name)
PagesEntry(name, pages) ==
    LET comps == Split(name, <<"/">>)
    IN  IF Len(name) > 0 /\ Head(name) = "/"
        THEN Walk("root", comps, pages)
        ELSE Walk("pages", comps, pages)

\* _get_page_list comparing the extension as it is spelled
GetPageListCaseSensitive(pages) ==
    Sorted({f \in DOMAIN pages : Ext(f) \in SupportedExtensions})

\* LXMFHTMLServer._get_page_list
GetPageList(pages) ==
    Sorted({f \in DOMAIN pages : Lower(Ext(f)) \in SupportedExtensions})

\* LXMFHTMLServer._get_file_icon
FileIcon(filename) ==
    LET ext == Lower(Ext(filename))
    IN  IF ext \in {<<".html">>, <<".htm">>} THEN "ICON_WEB"
        ELSE IF ext \in {<<".txt">>, <<".md">>} THEN "ICON_TEXT"
        ELSE IF ext \in {<<".jpg">>, <<".jpeg">>, <<".png">>, <<".gif">>,
                         <<".bmp">>, <<".webp">>} THEN "ICON_IMAGE"
        ELSE IF ext \in {<<".zip">>, <<".rar">>, <<".7z">>} THEN "ICON_ARCHIVE"
        ELSE "ICON_DOC"

\* open(path, 'r').read(): universal newlines
ReadText(content) ==
    Replace(Replace(content, <<"\r\n">>, <<"\n">>), <<"\r">>, <<"\n">>)

(***************************************************************************)
(* Server: templates and indexes.                                          *)
(***************************************************************************)
\* datetime.now().strftime('%Y-%m-%d %H:%M:%S')
Timestamp(t) == <<"time", ToString(t)>>

\* f"{size:,}B": the size of a content, with its unit
SizeStr(content, unit) == <<ToString(Len(content)), unit>>

RECURSIVE JoinLinks(_)
\* '<br>\n'.join of the links of _process_template
JoinLinks(files) ==
    IF Len(files) = 0 THEN <<>>
    ELSE <<"<a href=">> \o Head(files) \o <<">", FileIcon(Head(files)), " ">>
         \o Head(files) \o <<"</a>">>
         \o (IF Len(files) > 1 THEN <<"<br>", "\n">> ELSE <<>>)
         \o JoinLinks(Tail(files))

\* LXMFHTMLServer._process_template
ProcessTemplate(html_content, pages, t) ==
    LET files == GetPageList(pages)
        h1 == Replace(html_content, <<"{{timestamp}}">>, Timestamp(t))
        h2 == Replace(h1, <<"{{page_list}}">>, JoinLinks(files))
    IN  Replace(h2, <<"{{page_count}}">>, <<ToString(Len(files))>>)

\* the if/elif chain of _generate_dynamic_index without its '.pdf' branch
FileGroupWithoutDocuments(filename) ==
    LET ext == Lower(Ext(filename))
    IN  IF ext \in {<<".html">>, <<".htm">>} THEN "HTML Pages"
        ELSE IF ext \in {<<".txt">>, <<".md">>} THEN "Text Files"
        ELSE IF ext \in {<<".jpg">>, <<".jpeg">>, <<".png">>, <<".gif">>,
                         <<".bmp">>, <<".webp">>} THEN "Images"
        ELSE IF ext \in {<<".zip">>, <<".rar">>, <<".7z">>} THEN "Archives"
        ELSE "none"

\* the group of _generate_dynamic_index a file is listed under
FileGroup(filename) ==
    LET ext == Lower(Ext(filename))
    IN  IF ext \in {<<".html">>, <<".htm">>} THEN "HTML Pages"
        ELSE IF ext \in {<<".txt">>, <<".md">>} THEN "Text Files"
        ELSE IF ext \in {<<".jpg">>, <<".jpeg">>, <<".png">>, <<".gif">>,
                         <<".bmp">>, <<".webp">>} THEN "Images"
        ELSE IF ext = <<".pdf">> THEN "Documents"
        ELSE IF ext \in {<<".zip">>, <<".rar">>, <<".7z">>} THEN "Archives"
        ELSE "none"

GroupOrder == <<"HTML Pages", "Text Files", "Images", "Documents", "Archives">>

RECURSIVE GroupItems(_, _, _)
\* the <li> items of one group, in list order
GroupItems(files, group, pages) ==
    IF Len(files) = 0 THEN <<>>
    ELSE (IF FileGroup(Head(files)) = group
          THEN <<"<li>", "<a href=">> \o Head(files)
               \o <<">", FileIcon(Head(files)), " ">> \o Head(files)
               \o <<"</a>", "Size:">> \o SizeStr(pages[Head(files)], " bytes")
               \o <<"</li>">>
          ELSE <<>>)
         \o GroupItems(Tail(files), group, pages)

RECURSIVE Sections(_, _, _)
Sections(groups, files, pages) ==
    IF Len(groups) = 0 THEN <<>>
    ELSE LET items == GroupItems(files, Head(groups), pages)
         IN  (IF Len(items) > 0
              THEN <<"<h3>", Head(groups), "</h3>", "<ul>">> \o items \o <<"</ul>">>
              ELSE <<>>)
             \o Sections(Tail(groups), files, pages)

\* LXMFHTMLServer._generate_dynamic_index
GenerateDynamicIndex(pages, t) ==
    LET files == GetPageList(pages)
    IN  <<"<html>", "<head>", "<title>LXMF HTML Server - Index</title>", "</head>",
          "<body>", "<h1>", "LXMF HTML Server", "</h1>">>
        \o Timestamp(t) \o <<"Total Files:", ToString(Len(files))>>
        \o <<"<h2>", "Available", " ", "Files", "</h2>">>
        \o Sections(GroupOrder, files, pages)
        \o <<"</body>", "</html>">>

RECURSIVE TextIndexLines(_, _, _)
\* the numbered lines of _generate_text_index
TextIndexLines(files, i, pages) ==
    IF Len(files) = 0 THEN <<>>
    ELSE <<" ", " ", "[", ToString(i), "]", " ", FileIcon(Head(files)), " ">>
         \o Head(files) \o <<" ", "(">> \o SizeStr(pages[Head(files)], "B")
         \o <<")", "\n">>
         \o TextIndexLines(Tail(files), i + 1, pages)

\* LXMFHTMLServer._generate_text_index
GenerateTextIndex(pages) ==
    LET files == GetPageList(pages)
    IN  IF Len(files) = 0 THEN <<"No files available">>
        ELSE <<"ICON_PAGE", " ", "Available", " ", "Files", " ", "(",
               ToString(Len(files)), ")", ":", "\n", "\n">>
             \o TextIndexLines(files, 1, pages)
             \o <<"\n", "ICON_INFO", " ", "To view a file, send: GET:<filename>", "\n",
                  "Example: GET:">> \o files[1] \o <<"\n",
                  "Send 'list' or 'pages' to see this index again">>

\* the 404 page of _serve_page
ErrorHtml(page_name) ==
    <<"<html>", "<head>", "<title>404 Not Found</title>", "</head>", "<body>",
      "<h1>404 - File Not Found</h1>", "The requested file '">> \o page_name
    \o <<"' does not exist.", "</body>", "</html>">>

(***************************************************************************)
(* Server: sending and serving.                                            *)
(***************************************************************************)
\* _send_html sending the text alone, without the field
SendHtmlNoField(dest_hash, html_content, message_text, outcome) ==
    IF outcome = "sent"
    THEN <<Message(dest_hash, ServerHash, message_text, EmptyMap)>>
    ELSE <<>>

\* LXMFHTMLServer._send_html: the messages handed to the substrate
SendHtml(dest_hash, html_content, message_text, outcome) ==
    IF outcome = "sent"
    THEN <<Message(dest_hash, ServerHash, message_text,
                   Put(EmptyMap, FIELD_HTML_CONTENT, html_content))>>
    ELSE <<>>

\* LXMFHTMLServer._send_file (open(file_path, 'rb') raises on a directory)
SendFile(dest_hash, entry, filename, outcome) ==
    IF outcome = "sent" /\ entry.kind = "file"
    THEN <<Message(dest_hash, ServerHash,
                   <<"File:", " ">> \o filename \o <<" ", "(">>
                       \o SizeStr(entry.content, " bytes") \o <<")">>,
                   Put(EmptyMap, FIELD_FILE_ATTACHMENTS,
                       << <<filename, entry.content>> >>))>>
    ELSE <<>>

\* LXMFHTMLServer._send_simple_message
SendSimpleMessage(dest_hash, text, outcome) ==
    IF outcome = "sent"
    THEN <<Message(dest_hash, ServerHash, text, EmptyMap)>>
    ELSE <<>>

\* LXMFHTMLServer._log_access: the line appended to access.log
LogLine(sender_hash, page, success) ==
    [time |-> now, sender |-> PrettyHexRep(sender_hash), page |-> page,
     status |-> IF success THEN "SUCCESS" ELSE "FAILED"]

IndexNames == {<<"index">>, <<"_index">>, <<"_list">>, <<"list">>}

\* _serve_page without os.path.basename: the name is looked up as received
ServedNameRaw(page_name) == page_name

\* the name _serve_page looks up
ServedName(page_name) == Basename(page_name)

\* what can go wrong on the server's console and log file while it serves
Faults == {"none", "print_raises", "log_unwritable"}

\* _serve_page when its status prints and its log writes succeed: the messages
\* handed over, the log lines, the increment of requests_served, the value
\* returned and the path taken; o1 and o2 are the outcomes of its sends
ServeResult(sender_hash, page_name_arg, o1, o2) ==
    LET page_name == ServedName(page_name_arg)
        entry == PagesEntry(page_name, pages_dir)
        ext == Lower(Ext(page_name))
    IN  IF Len(page_name) = 0 \/ Lower(page_name) \in IndexNames
        THEN [outbox |-> SendHtml(sender_hash, GenerateDynamicIndex(pages_dir, now),
                                  <<"File", " ", "Index">>, o1)
                         \o SendSimpleMessage(sender_hash,
                                              GenerateTextIndex(pages_dir), o2),
              lines |-> <<LogLine(sender_hash, <<"INDEX">>, TRUE)>>,
              served |-> 0, returned |-> "True", op |-> "serve_index"]
        ELSE IF entry.kind = "none"
        THEN [outbox |-> SendHtml(sender_hash, ErrorHtml(page_name),
                                  <<"404:", " ">> \o page_name, o1),
              lines |-> <<LogLine(sender_hash, page_name, FALSE)>>,
              served |-> 0, returned |-> "False", op |-> "serve_404"]
        ELSE IF ext \in {<<".html">>, <<".htm">>}
        THEN IF entry.kind = "file"
             THEN [outbox |-> SendHtml(sender_hash,
                                       ProcessTemplate(ReadText(entry.content),
                                                       pages_dir, now),
                                       <<"Serving:", " ">> \o page_name, o1),
                   lines |-> <<LogLine(sender_hash, page_name, TRUE)>>,
                   served |-> 1, returned |-> "True", op |-> "serve_html"]
             ELSE [outbox |-> <<>>,
                   lines |-> <<LogLine(sender_hash, page_name, FALSE)>>,
                   served |-> 0, returned |-> "False", op |-> "serve_error"]
        ELSE [outbox |-> SendFile(sender_hash, entry, page_name, o1),
              lines |-> <<LogLine(sender_hash, page_name, TRUE)>>,
              served |-> 1, returned |-> "True", op |-> "serve_file"]

\* _serve_page under a fault.  print_raises: the status print that follows the
\* log line raises and the handler logs the request again as FAILED; on the
\* path that is already in the handler the print comes before the log line,
\* and no line is written.  log_unwritable: _log_access swallows the error.
Serve(sender_hash, page_name_arg, o1, o2, fault) ==
    LET r == ServeResult(sender_hash, page_name_arg, o1, o2)
    IN  IF fault = "none" THEN r
        ELSE IF fault = "log_unwritable" THEN [r EXCEPT !.lines = <<>>]
        ELSE IF r.op = "serve_error"
        THEN [r EXCEPT !.lines = <<>>, !.returned = "None"]
        ELSE [r EXCEPT !.lines = r.lines \o
                           <<LogLine(sender_hash, ServedName(page_name_arg), FALSE)>>,
                       !.returned = "False"]

\* LXMFHTMLServer._serve_page
ServePage(sender_hash, page_name_arg, o1, o2, fault) ==
    \E r \in {Serve(sender_hash, page_name_arg, o1, o2, fault)} :
        /\ outbox' = r.outbox
        /\ access_log' = access_log \o r.lines
        /\ requests_served' = requests_served + r.served
        /\ returned' = r.returned
        /\ lastOp' = r.op

HelpText == <<"LXMF HTML Server", "\n", "Available commands:", "\n", "Example: GET:about.html">>

AckText == <<"Server received your announcement">>

\* _handle_message honouring the field only under a GET: body
HasRequestFieldUnderGet(message) ==
    /\ FIELD_HTML_REQUEST \in DOMAIN message.fields
    /\ StartsWith(message.content, <<"GET:">>)

\* message.fields and FIELD_HTML_REQUEST in message.fields
HasRequestField(message) == FIELD_HTML_REQUEST \in DOMAIN message.fields

\* LXMFHTMLServer._handle_message
ServerHandleMessage(message, o1, o2, fault) ==
    LET content == message.content
        content_lower == Strip(Lower(content))
        sender_hash == message.src
    IN  /\ message \in DOMAIN net
        /\ message.dst = ServerHash
        /\ (o1 = "sent" => o2 # "nopath")
        /\ IF HasRequestField(message)
           THEN ServePage(sender_hash, message.fields[FIELD_HTML_REQUEST], o1, o2, fault)
           ELSE IF content_lower \in {<<"list">>, <<"pages">>, <<"dir">>, <<"ls">>,
                                      <<"_index">>, <<"_list">>}
           THEN ServePage(sender_hash, <<"_index">>, o1, o2, fault)
           ELSE IF content_lower = <<"index">>
           THEN ServePage(sender_hash, <<"index">>, o1, o2, fault)
           ELSE IF StartsWith(content, <<"GET:">>) \/ StartsWith(content, <<"get:">>)
           THEN ServePage(sender_hash, Strip(Tail(content)), o1, o2, fault)
           ELSE IF content_lower \in {<<"announce">>, <<"hello">>, <<"ping">>}
           THEN /\ outbox' = SendSimpleMessage(sender_hash, AckText, o1)
                /\ returned' = "None"
                /\ lastOp' = "server_ack"
                /\ UNCHANGED <<requests_served, access_log>>
           ELSE /\ outbox' = SendSimpleMessage(sender_hash, HelpText, o1)
                /\ returned' = "None"
                /\ lastOp' = "server_help"
                /\ UNCHANGED <<requests_served, access_log>>
        /\ net' = BagAddAll(BagRemove(net, message), outbox')
        /\ emitted' = <<>>
        /\ inbox' = <<message>>
        /\ UNCHANGED <<registryVars, storageFiles, threads, cacheVars, pending_requests, socketio,
                       pages_dir, announceVars, nreq, now>>

(***************************************************************************)
(* Client: inbound messages.                                               *)
(***************************************************************************)
HistoryLimit == 100

HeadClose == <<"</head>">>
BodyClose == <<"</body>">>

\* inject_script of _save_html_file, for one server hash
InjectScript(server_hash) ==
    <<"\n", "<script>currentServer=">> \o server_hash \o <<"</script>", "\n">>

\* _save_html_file putting the script in place of the closing tag
InjectedOverTag(html_content, server_hash) ==
    LET inject_script == InjectScript(server_hash)
    IN  IF Contains(html_content, HeadClose)
        THEN Replace(html_content, HeadClose, inject_script)
        ELSE IF Contains(html_content, BodyClose)
        THEN Replace(html_content, BodyClose, inject_script)
        ELSE html_content \o inject_script

\* the content LXMFHTMLBrowser._save_html_file writes
Injected(html_content, server_hash) ==
    LET inject_script == InjectScript(server_hash)
    IN  IF Contains(html_content, HeadClose)
        THEN Replace(html_content, HeadClose, inject_script \o HeadClose)
        ELSE IF Contains(html_content, BodyClose)
        THEN Replace(html_content, BodyClose, inject_script \o BodyClose)
        ELSE html_content \o inject_script

RECURSIVE ParseLines(_)
\* the loop of _parse_page_list over the lines of the text
ParseLines(lines) ==
    IF Len(lines) = 0 THEN <<>>
    ELSE LET line == Strip(Head(lines))
             page_info == Strip(SplitOnce(line, <<"]">>)[2])
             page_name == Strip(Split(page_info, <<"(">>)[1])
         IN  (IF /\ StartsWith(line, <<"[">>)
                 /\ Contains(line, <<"]">>)
                 /\ Contains(page_info, <<"(">>)
                 /\ Len(page_name) > 0
              THEN <<page_name>> ELSE <<>>)
             \o ParseLines(Tail(lines))

\* LXMFHTMLBrowser._parse_page_list
ParsePageList(text) == ParseLines(Split(text, <<"\n">>))

\* the page name _handle_message gives a received HTML body
ReceivedPageName(content) ==
    IF StartsWith(content, <<"Serving:">>)
    THEN Strip(Replace(content, <<"Serving:">>, <<>>))
    ELSE IF \/ Contains(content, <<"Page", " ", "Index">>)
            \/ Contains(content, <<"Available", " ", "Pages">>)
    THEN <<"index", ".html">>
    ELSE <<"page", ".html">>

\* self.discovered_servers.get(server_hash, {}).get('name', 'Unknown Server')
ServerNameOf(server_hash) ==
    IF server_hash \in DOMAIN discovered_servers
    THEN discovered_servers[server_hash].name ELSE UnknownServer

\* the trim of _save_data keeping the oldest entries
TrimmedOldest(h) ==
    IF Len(h) > HistoryLimit THEN SubSeq(h, 1, HistoryLimit) ELSE h

\* the trim of _save_data
Trimmed(h) ==
    IF Len(h) > HistoryLimit THEN SubSeq(h, Len(h) - HistoryLimit + 1, Len(h)) ELSE h

\* self.storage_path and self.cache_path = os.path.join(storage_path, "cache")
StoragePath == <<"/", "home", "/", ".lxmf_html_browser">>
CachePath == StoragePath \o <<"/", "cache">>

\* os.path.join(a, b): an absolute b replaces a
OsPathJoin(a, b) ==
    IF StartsWith(b, <<"/">>) THEN b ELSE a \o <<"/">> \o b

RECURSIVE Resolved(_, _)
\* the directory entries open() walks from the root: empty and "." components
\* are skipped, ".." leaves the directory reached so far
Resolved(comps, reached) ==
    IF Len(comps) = 0 THEN reached
    ELSE LET c == Head(comps)
         IN  Resolved(Tail(comps),
                      IF c \in {<<>>, <<".">>} THEN reached
                      ELSE IF c = <<"..">>
                      THEN (IF Len(reached) = 0 THEN reached
                            ELSE SubSeq(reached, 1, Len(reached) - 1))
                      ELSE Append(reached, c))

\* _handle_message: the file open(os.path.join(self.cache_path, filename), 'wb')
\* writes, as the list of its directory entries from the root
AttachmentPath(filename) ==
    Resolved(Split(OsPathJoin(CachePath, filename), <<"/">>), <<>>)

\* an element of FIELD_FILE_ATTACHMENTS the loop accepts
WellFormed(attachment) == Len(attachment) >= 2

RECURSIVE StoreFiles(_, _)
\* the files cache after the attachment loop
StoreFiles(cache, attachments) ==
    IF Len(attachments) = 0 THEN cache
    ELSE StoreFiles(IF WellFormed(Head(attachments))
                    THEN Put(cache, Head(attachments)[1], Head(attachments)[2])
                    ELSE cache,
                    Tail(attachments))

RECURSIVE FileHistory(_, _, _)
\* the history entries the attachment loop appends
FileHistory(attachments, server_hash, server_name) ==
    IF Len(attachments) = 0 THEN <<>>
    ELSE (IF WellFormed(Head(attachments))
          THEN <<[server |-> server_hash, server_name |-> server_name,
                  page |-> Head(attachments)[1], timestamp |-> now,
                  type |-> "file"]>>
          ELSE <<>>)
         \o FileHistory(Tail(attachments), server_hash, server_name)

\* a payload that is text, not bytes
TextData == <<"<str>">>

\* f.write(file_data) raises TypeError on this element
WriteRaises(attachment) == WellFormed(attachment) /\ attachment[2] = TextData

\* the attachment loop is left by an exception
Aborted(attachments) == \E i \in DOMAIN attachments : WriteRaises(attachments[i])

\* the position of the element that raises
FirstRaising(attachments) ==
    CHOOSE i \in DOMAIN attachments :
        /\ WriteRaises(attachments[i])
        /\ \A j \in 1..(i - 1) : ~WriteRaises(attachments[j])

\* the elements the attachment loop gets through
Processed(attachments) ==
    IF Aborted(attachments)
    THEN SubSeq(attachments, 1, FirstRaising(attachments) - 1)
    ELSE attachments

RECURSIVE FileEvents(_, _, _)
\* the file_received events the attachment loop emits
FileEvents(attachments, server_hash, server_name) ==
    IF Len(attachments) = 0 THEN <<>>
    ELSE (IF WellFormed(Head(attachments))
          THEN <<[type |-> "file_received", server |-> server_hash,
                  server_name |-> server_name, filename |-> Head(attachments)[1],
                  size |-> SizeStr(Head(attachments)[2], " bytes")]>>
          ELSE <<>>)
         \o FileEvents(Tail(attachments), server_hash, server_name)

\* the text branch of _handle_message forgetting every pending request
HandleTextClearingPending ==
    /\ emitted' = <<>>
    /\ lastOp' = "message_text"
    /\ pending_requests' = EmptyMap
    /\ UNCHANGED <<discovered_servers, discovered_file, storageFiles, cacheVars>>

\* the text branch of _handle_message: the body is printed
HandleText ==
    /\ emitted' = <<>>
    /\ lastOp' = "message_text"
    /\ UNCHANGED <<discovered_servers, discovered_file, storageFiles, cacheVars,
                   pending_requests>>

\* the list test of _handle_message finding the request under the key that
\* _request_page_list stored
IsListResponseUnderStoredKey(server_hash, content) ==
    /\ StripBrackets(server_hash) \in DOMAIN pending_requests
    /\ pending_requests[StripBrackets(server_hash)].type = "list"
    /\ Contains(content, <<"Available", " ", "Pages">>)

\* the list test of _handle_message, made before any field is looked at
IsListResponse(server_hash, content) ==
    /\ server_hash \in DOMAIN pending_requests
    /\ pending_requests[server_hash].type = "list"
    /\ Contains(content, <<"Available", " ", "Pages">>)

\* the sender's key in the form request_page stores its pending entries under
SenderKeyAsRequested(source_hash) == source_hash

\* _handle_message: server_hash = RNS.prettyhexrep(message.source_hash)
SenderKey(source_hash) == PrettyHexRep(source_hash)

\* LXMFHTMLBrowser._handle_message
ClientHandleMessage(message) ==
    LET server_hash == SenderKey(message.src)
        content == message.content
        fields == message.fields
        is_pending == server_hash \in DOMAIN pending_requests
        server_name == ServerNameOf(server_hash)
    IN  /\ message \in DOMAIN net
        /\ message.dst = ClientHash
        /\ net' = BagRemove(net, message)
        /\ IF IsListResponse(server_hash, content)
           THEN LET pages == ParsePageList(content)
                IN  /\ UNCHANGED cacheVars
                    /\ IF server_hash \in DOMAIN discovered_servers
                       THEN /\ discovered_servers' =
                                 [discovered_servers EXCEPT ![server_hash].pages = pages]
                            /\ SaveData
                            /\ emitted' =
                                 IF socketio
                                 THEN <<[type |-> "pages_updated", hash |-> server_hash,
                                         pages |-> pages]>>
                                 ELSE <<>>
                       ELSE /\ emitted' = <<>>
                            /\ UNCHANGED <<discovered_servers, discovered_file,
                                           storageFiles>>
                    /\ pending_requests' = Drop(pending_requests, server_hash)
                    /\ lastOp' = "message_list"
           ELSE IF FIELD_HTML_CONTENT \in DOMAIN fields
           THEN LET html_content == fields[FIELD_HTML_CONTENT]
                    page_name == ReceivedPageName(content)
                    filename == <<ToString(now), "_">> \o page_name
                IN  /\ html_cache' =
                         Put(html_cache, filename, Injected(html_content, server_hash))
                    /\ history' =
                         Trimmed(Append(history,
                                        [server |-> server_hash,
                                         server_name |-> server_name,
                                         page |-> page_name, timestamp |-> now]))
                    /\ emitted' =
                         IF socketio
                         THEN <<[type |-> "html_received", server |-> server_hash,
                                 server_name |-> server_name, page |-> page_name,
                                 filename |-> filename]>>
                         ELSE <<>>
                    /\ pending_requests' =
                         IF is_pending THEN Drop(pending_requests, server_hash)
                         ELSE pending_requests
                    /\ lastOp' = "message_html"
                    /\ UNCHANGED <<discovered_servers, files_cache, bookmarks>>
                    /\ SaveData
           ELSE IF FIELD_FILE_ATTACHMENTS \in DOMAIN fields
           THEN LET file_attachments == fields[FIELD_FILE_ATTACHMENTS]
                    aborted == Aborted(file_attachments)
                    done == Processed(file_attachments)
                    stored == StoreFiles(files_cache, done)
                IN  /\ files_cache' =
                         IF aborted
                         THEN Put(stored,
                                  file_attachments[FirstRaising(file_attachments)][1],
                                  <<>>)
                         ELSE stored
                    /\ history' =
                         Trimmed(history \o FileHistory(done, server_hash, server_name))
                    /\ emitted' =
                         IF socketio
                         THEN FileEvents(done, server_hash, server_name)
                         ELSE <<>>
                    /\ pending_requests' =
                         IF is_pending /\ ~aborted
                         THEN Drop(pending_requests, server_hash)
                         ELSE pending_requests
                    /\ lastOp' = IF aborted THEN "message_file_error"
                                 ELSE "message_file"
                    /\ UNCHANGED <<discovered_servers, html_cache, bookmarks>>
                    /\ IF \E i \in 1..Len(done) : WellFormed(done[i])
                       THEN SaveData ELSE UNCHANGED <<discovered_file, storageFiles>>
           ELSE HandleText
        /\ outbox' = <<>>
        /\ returned' = "None"
        /\ inbox' = <<message>>
        /\ UNCHANGED <<known_peers, socketio, serverVars, nreq, now, threads>>

\* add_bookmark (/api/bookmark/add)
AddBookmark(name, hash) ==
    /\ socketio
    /\ Len(bookmarks) < MaxBookmarks
    /\ bookmarks' = Append(bookmarks, [name |-> name, hash |-> hash, added |-> now])
    /\ history' = Trimmed(history)
    /\ UNCHANGED <<discovered_servers, known_peers, html_cache, files_cache>>
    /\ SaveData
    /\ emitted' = <<>>
    /\ outbox' = <<>>
    /\ returned' = "True"
    /\ lastOp' = "add_bookmark"
    /\ UNCHANGED <<pending_requests, socketio, serverVars, inbox, net, nreq, now, threads>>

\* [b for b in browser.bookmarks if b['hash'] != data['hash']]
BookmarksWithout(hash) == SelectSeq(bookmarks, LAMBDA b : b.hash # hash)

\* remove_bookmark (/api/bookmark/remove)
RemoveBookmark(hash) ==
    /\ socketio
    /\ bookmarks' = BookmarksWithout(hash)
    /\ history' = Trimmed(history)
    /\ UNCHANGED <<discovered_servers, known_peers, html_cache, files_cache>>
    /\ SaveData
    /\ emitted' = <<>>
    /\ outbox' = <<>>
    /\ returned' = "True"
    /\ lastOp' = "remove_bookmark"
    /\ UNCHANGED <<pending_requests, socketio, serverVars, inbox, net, nreq, now, threads>>

(***************************************************************************)
(* Process life cycle and environment.                                     *)
(***************************************************************************)
\* LXMFHTMLBrowser._load_data (the registry file)
LoadedRegistry ==
    IF discovered_file.state = "ok" THEN discovered_file.data ELSE EmptyMap

\* LXMFHTMLBrowser._load_data (bookmarks.json)
LoadedBookmarks ==
    IF bookmarks_file.state = "ok" THEN bookmarks_file.data ELSE <<>>

\* _load_data taking whatever history.json holds
LoadedHistoryIgnoringState == history_file.data

\* LXMFHTMLBrowser._load_data (history.json)
LoadedHistory ==
    IF history_file.state = "ok" THEN history_file.data ELSE <<>>

\* no thread of the client is inside an operation
IdleThreads ==
    [discovery |-> "idle", remove |-> "idle", deliver |-> "idle", ui |-> "idle",
     sliced |-> [deliver |-> <<>>, ui |-> <<>>]]

\* a new client process: LXMFHTMLBrowser.__init__, socketio still None
Restart ==
    /\ discovered_servers' = LoadedRegistry
    /\ known_peers' = DOMAIN LoadedRegistry
    /\ pending_requests' = EmptyMap
    /\ socketio' = FALSE
    /\ emitted' = <<>>
    /\ outbox' = <<>>
    /\ returned' = "None"
    /\ lastOp' = "startup"
    /\ bookmarks' = LoadedBookmarks
    /\ history' = LoadedHistory
    /\ threads' = IdleThreads
    /\ UNCHANGED <<discovered_file, storageFiles, html_cache, files_cache,
                   serverVars, inbox, net, nreq, now>>

\* main(): browser.socketio = socketio
AttachUI ==
    /\ ~socketio
    /\ socketio' = TRUE
    /\ emitted' = <<>>
    /\ outbox' = <<>>
    /\ returned' = "None"
    /\ lastOp' = "attach_ui"
    /\ UNCHANGED <<registryVars, storageFiles, threads, pending_requests, cacheVars, serverVars, inbox, net,
                   nreq, now>>

\* the registry file is damaged outside the program (torn write, editor)
CorruptFile ==
    /\ discovered_file.state = "ok"
    /\ discovered_file' = [state |-> "malformed", data |-> EmptyMap]
    /\ emitted' = <<>>
    /\ outbox' = <<>>
    /\ returned' = "None"
    /\ lastOp' = "corrupt_file"
    /\ UNCHANGED <<discovered_servers, known_peers, pending_requests, socketio,
                   storageFiles, cacheVars, serverVars, inbox, net, nreq, now, threads>>

\* what makes json.load or open raise: a torn write, a file without read
\* permission
Damage == {"malformed", "unreadable"}

\* one of the three persistence files is damaged outside the program; what
\* it held stays on the disk
DamageFile(which, kind) ==
    /\ \/ /\ which = "bookmarks"
          /\ bookmarks_file.state = "ok"
          /\ bookmarks_file' = [bookmarks_file EXCEPT !.state = kind]
          /\ UNCHANGED <<history_file, discovered_file>>
       \/ /\ which = "history"
          /\ history_file.state = "ok"
          /\ history_file' = [history_file EXCEPT !.state = kind]
          /\ UNCHANGED <<bookmarks_file, discovered_file>>
       \/ /\ which = "discovered_servers"
          /\ discovered_file.state = "ok"
          /\ discovered_file' = [discovered_file EXCEPT !.state = kind]
          /\ UNCHANGED <<bookmarks_file, history_file>>
    /\ emitted' = <<>>
    /\ outbox' = <<>>
    /\ returned' = "None"
    /\ lastOp' = "damage_" \o which
    /\ UNCHANGED <<discovered_servers, known_peers, pending_requests, socketio,
                   cacheVars, serverVars, inbox, net, nreq, now, threads>>

\* the substrate loses a message
LoseMessage(message) ==
    /\ message \in DOMAIN net
    /\ net' = BagRemove(net, message)
    /\ emitted' = <<>>
    /\ outbox' = <<>>
    /\ returned' = "None"
    /\ lastOp' = "lose_message"
    /\ UNCHANGED <<registryVars, storageFiles, threads, pending_requests, socketio, cacheVars,
                   serverVars, inbox, nreq, now>>

Tick ==
    /\ now < MaxTime
    /\ now' = now + 1
    /\ emitted' = <<>>
    /\ outbox' = <<>>
    /\ returned' = "None"
    /\ lastOp' = "tick"
    /\ UNCHANGED <<registryVars, storageFiles, threads, pending_requests, socketio, cacheVars,
                   serverVars, inbox, net, nreq>>

(***************************************************************************)
(* Initial states.                                                         *)
(***************************************************************************)
DefaultPages ==
    [n \in {AboutHtml, HelpHtml, PhotoPng, NotesConf} |->
        IF n = AboutHtml
        THEN <<"<html>", "<head>", "</head>", "<body>", "{{page_count}}", "</body>">>
        ELSE IF n = HelpHtml THEN <<"<html>", "help">>
        ELSE IF n = PhotoPng THEN <<"png-bytes", "\r\n">>
        ELSE <<"conf">>]

ClientInit ==
    /\ discovered_servers = EmptyMap
    /\ known_peers = {}
    /\ pending_requests = EmptyMap
    /\ socketio = FALSE
    /\ history = <<>>
    /\ html_cache = EmptyMap
    /\ files_cache = EmptyMap
    /\ discovered_file = [state |-> "absent", data |-> EmptyMap]
    /\ bookmarks = <<>>
    /\ bookmarks_file = [state |-> "absent", data |-> <<>>]
    /\ threads = IdleThreads
    /\ history_file = [state |-> "absent", data |-> <<>>]

\* the defaults of LXMFHTMLServer.__init__
DefaultInterval == 1800

NoConfig == [state |-> "absent", interval |-> DefaultInterval, enabled |-> TRUE]

ServerInit ==
    /\ requests_served = 0
    /\ access_log = <<>>
    /\ auto_announce_interval = DefaultInterval
    /\ auto_announce_enabled = TRUE
    /\ last_announce = 0
    /\ config_file = NoConfig
    /\ announces = <<[time |-> 0, ok |-> TRUE]>>
    /\ announce_pc = "idle"

\* nothing in flight, nothing handed over or received yet
ChannelInit ==
    /\ net = EmptyMap
    /\ nreq = 0
    /\ emitted = <<>>
    /\ outbox = <<>>
    /\ inbox = <<>>
    /\ returned = "None"
    /\ lastOp = "startup"

EnvInit ==
    /\ ChannelInit
    /\ now = 0

Init ==
    /\ ClientInit
    /\ ServerInit
    /\ EnvInit
    /\ pages_dir = DefaultPages

(***************************************************************************)
(* Spec: a browsing session.  The client discovers the server, the UI      *)
(* issues requests, the server answers, the client handles the replies.    *)
(***************************************************************************)
\* what the UI and other callers of the API pass as the server hash
HashInputs ==
    { ServerHash, PrettyHexRep(ServerHash), HexRep(ServerHash),
      LxmfScheme \o ServerHash \o <<"/">> \o AboutHtml, <<"zz">> }

PageInputs == { <<>>, AboutHtml, PhotoPng }

Announce == ReceivedAnnounce(ServerHash, CanonicalName)

Request ==
    \E sh \in HashInputs, p \in PageInputs, o \in SendOutcomes : RequestPage(sh, p, o)

RequestList ==
    \E sh \in HashInputs, o \in SendOutcomes : RequestPageList(sh, o)

ServerReceive ==
    \E m \in DOMAIN net, o1 \in SendOutcomes, o2 \in SendOutcomes :
        ServerHandleMessage(m, o1, o2, "none")

ClientReceive == \E m \in DOMAIN net : ClientHandleMessage(m)

Next ==
    \/ Announce
    \/ AttachUI
    \/ Request
    \/ RequestList
    \/ ServerReceive
    \/ ClientReceive

Spec == Init /\ [][Next]_vars

(***************************************************************************)
(* SpecRegistry: the peer registry under announces of every kind,          *)
(* removals, restarts and a damaged registry file.                         *)
(***************************************************************************)
AnnounceAny == \E h \in AllHashes, a \in AppData : ReceivedAnnounce(h, a)

Remove == \E k \in RemoveInputs : RemoveServer(k)

NextRegistry ==
    \/ AnnounceAny
    \/ Remove
    \/ Restart
    \/ AttachUI
    \/ CorruptFile
    \/ Tick

SpecRegistry == Init /\ [][NextRegistry]_vars

(***************************************************************************)
(* SpecDiscovery: announces of any peer while the UI issues requests.      *)
(***************************************************************************)
\* the UI asks the server for about.html, by the key the registry shows
RequestAbout ==
    \E o \in {"sent", "nopath"} : RequestPage(PrettyHexRep(ServerHash), AboutHtml, o)

NextDiscovery ==
    \/ AnnounceAny
    \/ AttachUI
    \/ RequestAbout
    \/ Tick

SpecDiscovery == Init /\ [][NextDiscovery]_vars

(***************************************************************************)
(* SpecInbound: the running browser, its UI channel attached, receives any *)
(* message from the server's hash, solicited or not.  history.json of the  *)
(* previous run was absent or one entry short of the limit.                *)
(***************************************************************************)
\* an entry of history.json written by an earlier run
OldEntry(i) ==
    [server |-> PrettyHexRep(ServerHash), server_name |-> UnknownServer,
     page |-> <<"old", ToString(i)>>, timestamp |-> 0]

OldHistory(n) == [i \in 1..n |-> OldEntry(i)]

InboundBodies ==
    { <<"Serving:", " ">> \o AboutHtml, <<"Available", " ", "Pages">>, <<"hello">> }

InboundHtml == <<"<html>", "<head>", "</head>", "hi">>

PngBytes == <<"png-bytes", "\r\n">>

\* attachment names that lead out of the directory they are joined to
ParentName == <<"..", "/", "identity">>
AbsoluteName == <<"/", "srv", "/", "identity">>

\* values of FIELD_FILE_ATTACHMENTS: pairs, an element that is no pair, a
\* pair whose payload is text, the same name twice, nothing
AttachmentLists ==
    { <<>>,
      << <<PhotoPng, PngBytes>> >>,
      << <<PhotoPng, PngBytes>>, <<NotesConf, <<"conf">>>> >>,
      << <<PhotoPng>>, <<NotesConf, <<"conf">>>> >>,
      << <<PhotoPng, TextData>>, <<NotesConf, <<"conf">>>> >>,
      << <<PhotoPng, PngBytes>>, <<PhotoPng, <<"conf">>>> >>,
      << <<ParentName, PngBytes>> >>,
      << <<AbsoluteName, PngBytes>> >> }

InboundFields ==
    { EmptyMap,
      Put(EmptyMap, FIELD_HTML_REQUEST, AboutHtml),
      Put(EmptyMap, FIELD_HTML_CONTENT, InboundHtml),
      Put(Put(EmptyMap, FIELD_HTML_CONTENT, InboundHtml),
          FIELD_FILE_ATTACHMENTS, << <<PhotoPng, PngBytes>> >>) }
    \cup { Put(EmptyMap, FIELD_FILE_ATTACHMENTS, a) : a \in AttachmentLists }

InitInbound ==
    /\ discovered_servers = EmptyMap
    /\ known_peers = {}
    /\ pending_requests = EmptyMap
    /\ socketio = TRUE
    /\ history \in {<<>>, OldHistory(HistoryLimit - 1)}
    /\ html_cache = EmptyMap
    /\ files_cache = EmptyMap
    /\ discovered_file = [state |-> "absent", data |-> EmptyMap]
    /\ bookmarks = <<>>
    /\ bookmarks_file = [state |-> "absent", data |-> <<>>]
    /\ threads = IdleThreads
    /\ history_file = IF history = <<>> THEN [state |-> "absent", data |-> <<>>]
                      ELSE Written(history)
    /\ ServerInit
    /\ EnvInit
    /\ pages_dir = DefaultPages

\* the peer hands a message for the client to the substrate, one at a time
InjectMessage(body, fields) ==
    /\ nreq < MaxRequests
    /\ DOMAIN net = {}
    /\ nreq' = nreq + 1
    /\ outbox' = <<Message(ClientHash, ServerHash, body, fields)>>
    /\ net' = BagAddAll(net, outbox')
    /\ emitted' = <<>>
    /\ inbox' = <<>>
    /\ returned' = "None"
    /\ lastOp' = "submit"
    /\ UNCHANGED <<registryVars, storageFiles, threads, pending_requests, socketio, cacheVars,
                   serverVars, now>>

Inbound == \E b \in InboundBodies, f \in InboundFields : InjectMessage(b, f)

\* the UI refreshes the server's page list; no path to the server is known
AskList == RequestPageList(PrettyHexRep(ServerHash), "nopath")

NextInbound ==
    \/ Announce
    \/ AskList
    \/ Inbound
    \/ ClientReceive

SpecInbound == InitInbound /\ [][NextInbound]_vars

(***************************************************************************)
(* SpecStorage: bookmarks, and the three persistence files across process  *)
(* starts.                                                                 *)
(***************************************************************************)
BookmarkName == <<"Node">>

BookmarkHashes == {PrettyHexRep(h) : h \in PeerHashes}

Bookmark == \E h \in BookmarkHashes : AddBookmark(BookmarkName, h)

Unbookmark == \E h \in BookmarkHashes : RemoveBookmark(h)

DamageAny ==
    \E which \in {"bookmarks", "history", "discovered_servers"}, kind \in Damage :
        DamageFile(which, kind)

\* the server answers with the about page
InboundPage ==
    InjectMessage(<<"Serving:", " ">> \o AboutHtml,
                  Put(EmptyMap, FIELD_HTML_CONTENT, InboundHtml))

NextStorage ==
    \/ Announce
    \/ AttachUI
    \/ Bookmark
    \/ Unbookmark
    \/ InboundPage
    \/ ClientReceive
    \/ DamageAny
    \/ Restart

SpecStorage == Init /\ [][NextStorage]_vars

(***************************************************************************)
(* SpecListing: the operator fills and empties the pages directory between *)
(* calls of _get_page_list.                                                *)
(***************************************************************************)
\* entry names: both spellings of an extension, an unsupported one, no
\* extension, a dot file
ListingNames ==
    { AboutHtml, <<"about", ".HTML">>, <<"LOGO", ".PNG">>, PhotoPng, NotesConf,
      <<"readme">>, <<".html">>, <<"help", ".htm">>, <<"readme", ".txt">>,
      <<"notes", ".pdf">>, <<"photo", ".zip">> }

\* a file is copied into pages/
AddPage(name) ==
    /\ name \notin DOMAIN pages_dir
    /\ pages_dir' = Put(pages_dir, name, <<"x">>)
    /\ emitted' = <<>>
    /\ outbox' = <<>>
    /\ returned' = "None"
    /\ lastOp' = "add_page"
    /\ UNCHANGED <<registryVars, storageFiles, threads, pending_requests, socketio, cacheVars,
                   requests_served, access_log, announceVars, inbox, net, nreq, now>>

\* a file is deleted from pages/
RemovePage(name) ==
    /\ name \in DOMAIN pages_dir
    /\ pages_dir' = Drop(pages_dir, name)
    /\ emitted' = <<>>
    /\ outbox' = <<>>
    /\ returned' = "None"
    /\ lastOp' = "remove_page"
    /\ UNCHANGED <<registryVars, storageFiles, threads, pending_requests, socketio, cacheVars,
                   requests_served, access_log, announceVars, inbox, net, nreq, now>>

\* a call of LXMFHTMLServer._get_page_list
ListPages ==
    /\ returned' = GetPageList(pages_dir)
    /\ emitted' = <<>>
    /\ outbox' = <<>>
    /\ lastOp' = "get_page_list"
    /\ UNCHANGED <<registryVars, storageFiles, threads, pending_requests, socketio, cacheVars,
                   serverVars, inbox, net, nreq, now>>

\* a call of LXMFHTMLServer._generate_dynamic_index
IndexPage ==
    /\ returned' = GenerateDynamicIndex(pages_dir, now)
    /\ emitted' = <<>>
    /\ outbox' = <<>>
    /\ lastOp' = "generate_index"
    /\ UNCHANGED <<registryVars, storageFiles, threads, pending_requests, socketio, cacheVars,
                   serverVars, inbox, net, nreq, now>>

NextListing ==
    \/ \E n \in ListingNames : AddPage(n)
    \/ \E n \in ListingNames : RemovePage(n)
    \/ ListPages
    \/ IndexPage

SpecListing == Init /\ [][NextListing]_vars

(***************************************************************************)
(* SpecSend: the five send operations with the time they take.  The server *)
(* sends to the client, the client to the server; the identity of the      *)
(* destination is recallable at once, after a while, or not at all.        *)
(***************************************************************************)
\* a call of one of the server's three send methods
ServerSend(method, wait) ==
    /\ nreq < MaxRequests
    /\ nreq' = nreq + 1
    /\ outbox' =
         IF method = "send_html"
         THEN SendHtml(ClientHash, ErrorHtml(MissingHtml),
                       <<"404:", " ">> \o MissingHtml, WaitOutcome(wait))
         ELSE IF method = "send_file"
         THEN SendFile(ClientHash, PagesEntry(PhotoPng, pages_dir), PhotoPng,
                       WaitOutcome(wait))
         ELSE SendSimpleMessage(ClientHash, HelpText, WaitOutcome(wait))
    /\ net' = BagAddAll(net, outbox')
    /\ now' \in ClockAfter(now, wait.slept)
    /\ returned' = IF wait.found THEN "True" ELSE "False"
    /\ emitted' = <<>>
    /\ lastOp' = method \o "_" \o WaitOutcome(wait)
    /\ UNCHANGED <<registryVars, storageFiles, threads, pending_requests, socketio, cacheVars,
                   serverVars, inbox>>

\* LXMFHTMLServer._send_html
CallSendHtml == \E a \in Arrivals : ServerSend("send_html", PolledWait(a))

\* LXMFHTMLServer._send_file
CallSendFile == \E a \in Arrivals : ServerSend("send_file", PolledWait(a))

\* LXMFHTMLServer._send_simple_message
CallSendSimpleMessage ==
    \E a \in Arrivals : ServerSend("send_simple_message", SingleWait(a, 0))

\* LXMFHTMLBrowser.request_page with its waits
RequestPageWaiting ==
    \E a \in Arrivals :
        /\ RequestPageSteps(PrettyHexRep(ServerHash), AboutHtml,
                            WaitOutcome(SingleWait(a, SettleTenths)))
        /\ now' \in ClockAfter(now, SingleWait(a, SettleTenths).slept)

\* LXMFHTMLBrowser._request_page_list with its waits
RequestPageListWaiting ==
    \E a \in Arrivals :
        /\ RequestPageListSteps(PrettyHexRep(ServerHash),
                                WaitOutcome(SingleWait(a, SettleTenths)))
        /\ now' \in ClockAfter(now, SingleWait(a, SettleTenths).slept)

NextSend ==
    \/ AttachUI
    \/ CallSendHtml
    \/ CallSendFile
    \/ CallSendSimpleMessage
    \/ RequestPageWaiting
    \/ RequestPageListWaiting

SpecSend == Init /\ [][NextSend]_vars

(***************************************************************************)
(* SpecRace: the announce thread inside _handle_discovery(h) and a UI      *)
(* thread inside remove_server(h).  The client takes no lock, so the       *)
(* threads interleave between any two statements; each action is one       *)
(* statement of one thread.                                                *)
(***************************************************************************)
RaceHash == PrettyHexRep(ServerHash)

\* the part of every statement of a thread that is not its own effect
ThreadStep(thread, pc, op) ==
    /\ threads' = [threads EXCEPT ![thread] = pc]
    /\ outbox' = <<>>
    /\ lastOp' = op
    /\ UNCHANGED <<cacheVars, pending_requests, socketio, serverVars, inbox, net,
                   nreq, now>>

\* _handle_discovery: if peer_hash_str in self.known_peers
DiscoveryTestKnown ==
    /\ threads.discovery = "idle"
    /\ ThreadStep("discovery",
                  IF RaceHash \in known_peers THEN "known" ELSE "insert",
                  "discovery_test_known")
    /\ emitted' = <<>>
    /\ returned' = "None"
    /\ UNCHANGED <<registryVars, storageFiles>>

\* _handle_discovery: if peer_hash_str in self.discovered_servers
DiscoveryTestRecord ==
    /\ threads.discovery = "known"
    /\ ThreadStep("discovery",
                  IF RaceHash \in DOMAIN discovered_servers THEN "touch" ELSE "idle",
                  "discovery_test_record")
    /\ emitted' = <<>>
    /\ returned' = "None"
    /\ UNCHANGED <<registryVars, storageFiles>>

\* _handle_discovery: self.discovered_servers[peer_hash_str]['last_seen'] = ...;
\* a KeyError ends the handler in its except clause
DiscoveryTouch ==
    /\ threads.discovery = "touch"
    /\ IF RaceHash \in DOMAIN discovered_servers
       THEN /\ ThreadStep("discovery", "save_known", "discovery_touch")
            /\ discovered_servers' =
                 [discovered_servers EXCEPT ![RaceHash].last_seen = now]
       ELSE /\ ThreadStep("discovery", "idle", "discovery_error")
            /\ UNCHANGED discovered_servers
    /\ emitted' = <<>>
    /\ returned' = "None"
    /\ UNCHANGED <<known_peers, discovered_file, storageFiles>>

\* _handle_discovery: self._save_data() of the known branch, then return
DiscoverySaveKnown ==
    /\ threads.discovery = "save_known"
    /\ ThreadStep("discovery", "idle", "discovery_known")
    /\ UNCHANGED <<discovered_servers, known_peers>>
    /\ SaveData
    /\ emitted' = <<>>
    /\ returned' = "None"

\* _handle_discovery: self.discovered_servers[peer_hash_str] = {...}
DiscoveryInsert ==
    /\ threads.discovery = "insert"
    /\ ThreadStep("discovery", "add", "discovery_insert")
    /\ discovered_servers' =
         Put(discovered_servers, RaceHash,
             [name |-> <<"Node">>, pages |-> <<>>, last_seen |-> now])
    /\ emitted' = <<>>
    /\ returned' = "None"
    /\ UNCHANGED <<known_peers, discovered_file, storageFiles>>

\* _handle_discovery: self.known_peers.add(peer_hash_str)
DiscoveryAdd ==
    /\ threads.discovery = "add"
    /\ ThreadStep("discovery", "save_new", "discovery_add")
    /\ known_peers' = known_peers \cup {RaceHash}
    /\ emitted' = <<>>
    /\ returned' = "None"
    /\ UNCHANGED <<discovered_servers, discovered_file, storageFiles>>

\* _handle_discovery: self._save_data() of the new branch
DiscoverySaveNew ==
    /\ threads.discovery = "save_new"
    /\ ThreadStep("discovery", "emit", "discovery_save")
    /\ UNCHANGED <<discovered_servers, known_peers>>
    /\ SaveData
    /\ emitted' = <<>>
    /\ returned' = "None"

\* _handle_discovery: if self.socketio: emit('server_discovered', ...)
DiscoveryEmit ==
    /\ threads.discovery = "emit"
    /\ ThreadStep("discovery", "idle", "discovery_new")
    /\ emitted' = IF socketio
                  THEN <<ServerDiscovered(RaceHash, <<"Node">>)>>
                  ELSE <<>>
    /\ returned' = "None"
    /\ UNCHANGED <<registryVars, storageFiles>>

\* remove_server: if server_hash in browser.discovered_servers
RemoveTestRecord ==
    /\ threads.remove = "idle"
    /\ ThreadStep("remove",
                  IF RaceHash \in DOMAIN discovered_servers THEN "pop" ELSE "test_known",
                  "remove_test_record")
    /\ emitted' = <<>>
    /\ returned' = "None"
    /\ UNCHANGED <<registryVars, storageFiles>>

\* remove_server: browser.discovered_servers.pop(server_hash); a KeyError
\* leaves the route
RemovePop ==
    /\ threads.remove = "pop"
    /\ IF RaceHash \in DOMAIN discovered_servers
       THEN /\ ThreadStep("remove", "test_known", "remove_pop")
            /\ discovered_servers' = Drop(discovered_servers, RaceHash)
            /\ returned' = "None"
       ELSE /\ ThreadStep("remove", "idle", "remove_error")
            /\ UNCHANGED discovered_servers
            /\ returned' = "500"
    /\ emitted' = <<>>
    /\ UNCHANGED <<known_peers, discovered_file, storageFiles>>

\* remove_server: if server_hash in browser.known_peers
RemoveTestKnown ==
    /\ threads.remove = "test_known"
    /\ ThreadStep("remove",
                  IF RaceHash \in known_peers THEN "discard" ELSE "save",
                  "remove_test_known")
    /\ emitted' = <<>>
    /\ returned' = "None"
    /\ UNCHANGED <<registryVars, storageFiles>>

\* remove_server: browser.known_peers.remove(server_hash)
RemoveDiscard ==
    /\ threads.remove = "discard"
    /\ ThreadStep("remove", "save", "remove_discard")
    /\ known_peers' = known_peers \ {RaceHash}
    /\ emitted' = <<>>
    /\ returned' = "None"
    /\ UNCHANGED <<discovered_servers, discovered_file, storageFiles>>

\* remove_server: browser._save_data(); return jsonify({'success': True})
RemoveSave ==
    /\ threads.remove = "save"
    /\ ThreadStep("remove", "idle", "remove_server")
    /\ UNCHANGED <<discovered_servers, known_peers>>
    /\ SaveData
    /\ emitted' = <<>>
    /\ returned' = "success"

NextRace ==
    \/ DiscoveryTestKnown
    \/ DiscoveryTestRecord
    \/ DiscoveryTouch
    \/ DiscoverySaveKnown
    \/ DiscoveryInsert
    \/ DiscoveryAdd
    \/ DiscoverySaveNew
    \/ DiscoveryEmit
    \/ RemoveTestRecord
    \/ RemovePop
    \/ RemoveTestKnown
    \/ RemoveDiscard
    \/ RemoveSave
    \/ AttachUI
    \/ Tick

SpecRace == Init /\ [][NextRace]_vars

(***************************************************************************)
(* SpecTrim: the delivery thread receiving HTML pages while a UI thread     *)
(* adds bookmarks.  Both run _save_data, statement by statement and        *)
(* without a lock; history.json of the previous run held 100 entries.      *)
(***************************************************************************)
InitTrim ==
    /\ discovered_servers = EmptyMap
    /\ known_peers = {}
    /\ pending_requests = EmptyMap
    /\ socketio = TRUE
    /\ history = OldHistory(HistoryLimit)
    /\ html_cache = EmptyMap
    /\ files_cache = EmptyMap
    /\ discovered_file = [state |-> "absent", data |-> EmptyMap]
    /\ bookmarks = <<>>
    /\ bookmarks_file = [state |-> "absent", data |-> <<>>]
    /\ threads = IdleThreads
    /\ history_file = Written(history)
    /\ ServerInit
    /\ EnvInit
    /\ pages_dir = DefaultPages

\* the history entry of the i-th page received in this run
NewEntry(i) ==
    [server |-> PrettyHexRep(ServerHash), server_name |-> UnknownServer,
     page |-> <<"new", ToString(i)>>, timestamp |-> now]

\* the part of every statement of a thread that leaves the registry alone
SaveStep(thread, pc, op) ==
    /\ threads' = [threads EXCEPT ![thread] = pc]
    /\ outbox' = <<>>
    /\ returned' = "None"
    /\ lastOp' = op
    /\ UNCHANGED <<registryVars, pending_requests, socketio, serverVars, inbox, net,
                   now, files_cache>>

\* _handle_message: self._save_html_file(html_content, filename, server_hash)
DeliverCache ==
    /\ threads.deliver = "idle"
    /\ nreq < MaxRequests
    /\ SaveStep("deliver", "append", "deliver_cache")
    /\ nreq' = nreq + 1
    /\ html_cache' = Put(html_cache, <<ToString(now), "_", "new", ToString(nreq')>>,
                         Injected(InboundHtml, PrettyHexRep(ServerHash)))
    /\ emitted' = <<>>
    /\ UNCHANGED <<history, bookmarks, storageFiles>>

\* _handle_message: self.history.append({...})
DeliverAppend ==
    /\ threads.deliver = "append"
    /\ SaveStep("deliver", "save", "deliver_append")
    /\ history' = Append(history, NewEntry(nreq))
    /\ emitted' = <<>>
    /\ UNCHANGED <<html_cache, bookmarks, storageFiles, nreq>>

\* _handle_message: if self.socketio: emit('html_received', ...)
DeliverEmit ==
    /\ threads.deliver = "emit"
    /\ SaveStep("deliver", "idle", "message_html")
    /\ emitted' = <<[type |-> "html_received", server |-> PrettyHexRep(ServerHash),
                     server_name |-> UnknownServer, page |-> <<"new", ToString(nreq)>>,
                     filename |-> <<ToString(now), "_", "new", ToString(nreq)>>]>>
    /\ UNCHANGED <<html_cache, history, bookmarks, storageFiles, nreq>>

\* add_bookmark: browser.bookmarks.append(bookmark)
UiAppendBookmark ==
    /\ threads.ui = "idle"
    /\ Len(bookmarks) < MaxBookmarks
    /\ SaveStep("ui", "save", "bookmark_append")
    /\ bookmarks' = Append(bookmarks, [name |-> BookmarkName,
                                       hash |-> PrettyHexRep(ServerHash),
                                       added |-> now])
    /\ emitted' = <<>>
    /\ UNCHANGED <<html_cache, history, storageFiles, nreq>>

\* _save_data: json.dump(self.bookmarks, f)
SaveBookmarks(thread) ==
    /\ threads[thread] = "save"
    /\ SaveStep(thread, "test", "save_bookmarks")
    /\ bookmarks_file' = Written(bookmarks)
    /\ emitted' = <<>>
    /\ UNCHANGED <<html_cache, history, bookmarks, history_file, nreq>>

\* _save_data: if len(self.history) > 100
SaveTest(thread) ==
    /\ threads[thread] = "test"
    /\ SaveStep(thread, IF Len(history) > HistoryLimit THEN "slice" ELSE "write",
                "save_test")
    /\ emitted' = <<>>
    /\ UNCHANGED <<html_cache, history, bookmarks, storageFiles, nreq>>

\* _save_data: the right-hand side self.history[-100:], a new list
SaveSlice(thread) ==
    /\ threads[thread] = "slice"
    /\ threads' = [threads EXCEPT ![thread] = "store",
                                  !.sliced[thread] = Trimmed(history)]
    /\ outbox' = <<>>
    /\ returned' = "None"
    /\ lastOp' = "save_slice"
    /\ emitted' = <<>>
    /\ UNCHANGED <<registryVars, pending_requests, socketio, serverVars, inbox, net,
                   now, cacheVars, storageFiles, nreq>>

\* _save_data: the assignment self.history = <the new list>
SaveStore(thread) ==
    /\ threads[thread] = "store"
    /\ threads' = [threads EXCEPT ![thread] = "write", !.sliced[thread] = <<>>]
    /\ history' = threads.sliced[thread]
    /\ outbox' = <<>>
    /\ returned' = "None"
    /\ lastOp' = "save_store"
    /\ emitted' = <<>>
    /\ UNCHANGED <<registryVars, pending_requests, socketio, serverVars, inbox, net,
                   now, html_cache, files_cache, bookmarks, storageFiles, nreq>>

\* _save_data: json.dump(self.history, f); json.dump(self.discovered_servers, f)
SaveWrite(thread) ==
    /\ threads[thread] = "write"
    /\ threads' = [threads EXCEPT ![thread] = IF thread = "deliver" THEN "emit"
                                              ELSE "idle"]
    /\ history_file' = Written(history)
    /\ discovered_file' = Written(discovered_servers)
    /\ outbox' = <<>>
    /\ returned' = IF thread = "ui" THEN "success" ELSE "None"
    /\ lastOp' = "save_write"
    /\ emitted' = <<>>
    /\ UNCHANGED <<discovered_servers, known_peers, pending_requests, socketio,
                   serverVars, inbox, net, now, cacheVars, bookmarks_file, nreq>>

SaveThreads == {"deliver", "ui"}

NextTrim ==
    \/ DeliverCache
    \/ DeliverAppend
    \/ DeliverEmit
    \/ UiAppendBookmark
    \/ \E t \in SaveThreads : SaveBookmarks(t)
    \/ \E t \in SaveThreads : SaveTest(t)
    \/ \E t \in SaveThreads : SaveSlice(t)
    \/ \E t \in SaveThreads : SaveStore(t)
    \/ \E t \in SaveThreads : SaveWrite(t)

SpecTrim == InitTrim /\ [][NextTrim]_vars

(***************************************************************************)
(* SpecServer: the server under requests of any LXMF sender.               *)
(***************************************************************************)
RequestNames ==
    { AboutHtml, HelpHtml, PhotoPng, NotesConf, MissingHtml,
      <<"..", "/", "identity">>, <<"/", "srv", "/", "identity">>,
      <<"sub", "/">> \o AboutHtml, <<"sub", "/">>, <<"..">>,
      <<"sub", "/", "..">>,
      <<"..", "/", "index">>, <<"sub", "/">> \o MissingHtml }

\* a sender hands a request to the substrate: the name in FIELD_HTML_REQUEST
\* (as request_page sends it) or in a GET: body
SubmitRequest(name, in_field) ==
    /\ nreq < MaxRequests
    /\ nreq' = nreq + 1
    /\ outbox' =
         <<Message(ServerHash, ClientHash, <<"GET:">> \o name,
                   IF in_field THEN Put(EmptyMap, FIELD_HTML_REQUEST, name)
                   ELSE EmptyMap)>>
    /\ net' = BagAddAll(net, outbox')
    /\ emitted' = <<>>
    /\ returned' = "None"
    /\ lastOp' = "submit"
    /\ UNCHANGED <<registryVars, storageFiles, threads, pending_requests, socketio, cacheVars,
                   serverVars, inbox, now>>

Submit == \E n \in RequestNames, f \in BOOLEAN : SubmitRequest(n, f)

\* the substrate delivers a reply to the sender, outside this specification
Deliver == \E m \in DOMAIN net : /\ m.dst # ServerHash
                                 /\ LoseMessage(m)

NextServer ==
    \/ Submit
    \/ ServerReceive
    \/ Deliver
    \/ Tick

SpecServer == Init /\ [][NextServer]_vars

(***************************************************************************)
(* SpecAnnounce: the announce scheduler of the server.  The server is      *)
(* constructed over any config.json, main applies its options and run()    *)
(* starts the loop, which checks and sleeps in turn.                       *)
(***************************************************************************)
\* time.sleep(10) of _auto_announce_loop
WakePeriod == 10

\* the minimum of set_announce_interval
MinInterval == 60

\* time.time() when the server is constructed
StartTime == 2000

MaxWakes == 16
MaxFailures == 1

\* how late a wake or the start of the loop can be; at most one slip in all
Slips == {0, 5}

\* the values config.json and --announce-interval are tried with
IntervalInputs == {5, MinInterval, DefaultInterval}

\* config.json when the server starts: absent, unreadable as JSON, or written
\* by an earlier run or by hand
ConfigFiles ==
    { NoConfig, [state |-> "malformed", interval |-> DefaultInterval, enabled |-> TRUE] }
    \cup { [state |-> "present", interval |-> i, enabled |-> e] :
               i \in IntervalInputs, e \in BOOLEAN }

\* LXMFHTMLServer._load_config: the interval and the switch after loading
LoadConfig(cfg) ==
    IF cfg.state = "present"
    THEN [interval |-> cfg.interval, enabled |-> cfg.enabled]
    ELSE [interval |-> DefaultInterval, enabled |-> TRUE]

\* LXMFHTMLServer._save_config
SaveConfig(interval, enabled) ==
    [state |-> "present", interval |-> interval, enabled |-> enabled]

\* _announce_server stamping last_announce before it announces
AnnounceServerStampsFirst(t, ok) ==
    /\ announces' = Append(announces, [time |-> t, ok |-> ok])
    /\ last_announce' = t

\* LXMFHTMLServer._announce_server at the time t: the attempt is recorded and
\* last_announce moves only when announce() returned
AnnounceServer(t, ok) ==
    /\ announces' = Append(announces, [time |-> t, ok |-> ok])
    /\ last_announce' = IF ok THEN t ELSE last_announce

Failures == Cardinality({i \in DOMAIN announces : ~announces[i].ok})

\* the state after construction: _load_config, then the announce of _init_lxmf
InitAnnounce ==
    /\ ClientInit
    /\ ChannelInit
    /\ now = StartTime
    /\ pages_dir = DefaultPages
    /\ requests_served = 0
    /\ access_log = <<>>
    /\ config_file \in ConfigFiles
    /\ auto_announce_interval = LoadConfig(config_file).interval
    /\ auto_announce_enabled = LoadConfig(config_file).enabled
    /\ \E ok \in BOOLEAN :
           /\ announces = <<[time |-> StartTime, ok |-> ok]>>
           /\ last_announce = IF ok THEN StartTime ELSE 0
    /\ announce_pc = "idle"

\* LXMFHTMLServer.set_announce_interval, as main calls it before run()
SetAnnounceInterval(seconds) ==
    /\ announce_pc = "idle"
    /\ IF seconds < MinInterval
       THEN /\ returned' = "False"
            /\ UNCHANGED <<auto_announce_interval, config_file>>
       ELSE /\ auto_announce_interval' = seconds
            /\ config_file' = SaveConfig(seconds, auto_announce_enabled)
            /\ returned' = "True"
    /\ lastOp' = "set_interval"
    /\ emitted' = <<>>
    /\ outbox' = <<>>
    /\ UNCHANGED <<registryVars, storageFiles, threads, pending_requests, socketio, cacheVars, pages_dir,
                   requests_served, access_log, auto_announce_enabled,
                   last_announce, announces, announce_pc, net, nreq, now, inbox>>

\* the end of main: --no-auto-announce, _save_config, then run() starts the
\* announce thread, slip seconds after the construction
Run(no_auto_announce, slip) ==
    /\ announce_pc = "idle"
    /\ auto_announce_enabled' = (auto_announce_enabled /\ ~no_auto_announce)
    /\ config_file' = SaveConfig(auto_announce_interval, auto_announce_enabled')
    /\ announce_pc' = "check"
    /\ now' = now + slip
    /\ returned' = "None"
    /\ lastOp' = "run"
    /\ emitted' = <<>>
    /\ outbox' = <<>>
    /\ UNCHANGED <<registryVars, storageFiles, threads, pending_requests, socketio, cacheVars, pages_dir,
                   requests_served, access_log, auto_announce_interval,
                   last_announce, announces, net, nreq, inbox>>

\* the test of _auto_announce_loop with the switch left out
AnnounceDueIgnoringSwitch == now - last_announce >= auto_announce_interval

\* the test of _auto_announce_loop
AnnounceDue ==
    auto_announce_enabled /\ now - last_announce >= auto_announce_interval

\* _auto_announce_loop up to its sleep: announce if due
AutoAnnounceCheck(ok) ==
    /\ announce_pc = "check"
    /\ IF AnnounceDue
       THEN /\ ~ok => Failures < MaxFailures
            /\ AnnounceServer(now, ok)
       ELSE /\ ok
            /\ UNCHANGED <<last_announce, announces>>
    /\ announce_pc' = "sleep"
    /\ returned' = "None"
    /\ lastOp' = "announce_check"
    /\ emitted' = <<>>
    /\ outbox' = <<>>
    /\ UNCHANGED <<registryVars, storageFiles, threads, pending_requests, socketio, cacheVars, pages_dir,
                   requests_served, access_log, auto_announce_interval,
                   auto_announce_enabled, config_file, net, nreq, now, inbox>>

\* time.sleep(10) of _auto_announce_loop returns, slip seconds late
AutoAnnounceSleep(slip) ==
    /\ announce_pc = "sleep"
    /\ now + WakePeriod <= StartTime + MaxWakes * WakePeriod
    /\ slip # 0 => (now - StartTime) % WakePeriod = 0
    /\ now' = now + WakePeriod + slip
    /\ announce_pc' = "check"
    /\ returned' = "None"
    /\ lastOp' = "announce_sleep"
    /\ emitted' = <<>>
    /\ outbox' = <<>>
    /\ UNCHANGED <<registryVars, storageFiles, threads, pending_requests, socketio, cacheVars, pages_dir,
                   requests_served, access_log, auto_announce_interval,
                   auto_announce_enabled, last_announce, config_file, announces,
                   net, nreq, inbox>>

SetInterval == \E seconds \in {30} \cup IntervalInputs : SetAnnounceInterval(seconds)

StartLoop == \E no_auto \in BOOLEAN, slip \in Slips : Run(no_auto, slip)

LoopCheck == \E ok \in BOOLEAN : AutoAnnounceCheck(ok)

LoopSleep == \E slip \in Slips : AutoAnnounceSleep(slip)

NextAnnounce ==
    \/ SetInterval
    \/ StartLoop
    \/ LoopCheck
    \/ LoopSleep

SpecAnnounce == InitAnnounce /\ [][NextAnnounce]_vars

(***************************************************************************)
(* SpecFaults: SpecServer on a machine whose console or log file can fail  *)
(* while a request is served.                                              *)
(***************************************************************************)
\* the delivery callback of the server runs and a print or a log write fails
ServerReceiveFaulty ==
    \E m \in DOMAIN net, o1 \in SendOutcomes, o2 \in SendOutcomes,
       fault \in Faults \ {"none"} :
        ServerHandleMessage(m, o1, o2, fault)

NextFaults ==
    \/ Submit
    \/ ServerReceive
    \/ ServerReceiveFaulty
    \/ Deliver
    \/ Tick

SpecFaults == Init /\ [][NextFaults]_vars

(***************************************************************************)
(* SpecPage: one page of any content.  about.html holds any text made of   *)
(* closing tags, a template placeholder, a CR LF line ending, plain text   *)
(* and the interceptor script; the client requests files and caches them.  *)
(***************************************************************************)
Pieces ==
    { HeadClose, BodyClose, <<"{{page_count}}">>, <<"\r\n">>, <<"x">>,
      InjectScript(PrettyHexRep(ServerHash)) }

RECURSIVE Documents(_)
\* the texts of at most n pieces
Documents(n) ==
    IF n = 0 THEN {<<>>}
    ELSE LET shorter == Documents(n - 1)
         IN  shorter \cup {d \o q : d \in shorter, q \in Pieces}

InitPage ==
    /\ ClientInit
    /\ ServerInit
    /\ EnvInit
    /\ \E d \in Documents(MaxPieces) :
          pages_dir = [DefaultPages EXCEPT ![AboutHtml] = d]

PageRequests == { AboutHtml, <<"sub", "/">> \o AboutHtml, PhotoPng }

\* the user asks for one file at a time: no message is in flight
RequestFile ==
    /\ DOMAIN net = {}
    /\ \E n \in PageRequests : RequestPage(ServerHash, n, "sent")

NextPage ==
    \/ AttachUI
    \/ RequestFile
    \/ ServerReceive
    \/ ClientReceive

SpecPage == InitPage /\ [][NextPage]_vars

(***************************************************************************)
(* SpecDispatch: the server under messages of any body, with or without    *)
(* FIELD_HTML_REQUEST, one at a time.                                      *)
(***************************************************************************)
IndexCommands ==
    { <<"list">>, <<"pages">>, <<"dir">>, <<"ls">>, <<"_index">>, <<"_list">>,
      <<"index">> }

AckCommands == { <<"announce">>, <<"hello">>, <<"ping">> }

Bodies ==
    IndexCommands \cup AckCommands
    \cup { <<"LIST">>, <<" ", "index", "\n">>, <<"what">>, <<>>,
           <<"GET:">>, <<"GET:">> \o HelpHtml, <<"get:">> \o HelpHtml \o <<" ">>,
           <<"GET:">> \o MissingHtml, <<" ", "GET:">> \o HelpHtml }

FieldNames == { AboutHtml, <<"INDEX">>, <<>> }

\* a sender hands a message to the substrate: any body, with or without a
\* page name in FIELD_HTML_REQUEST; one exchange at a time, and no delivery
\* callback has run for the new message yet
SubmitMessage(body, fields) ==
    /\ nreq < MaxRequests
    /\ DOMAIN net = {}
    /\ nreq' = nreq + 1
    /\ outbox' = <<Message(ServerHash, ClientHash, body, fields)>>
    /\ net' = BagAddAll(net, outbox')
    /\ emitted' = <<>>
    /\ inbox' = <<>>
    /\ returned' = "None"
    /\ lastOp' = "submit"
    /\ UNCHANGED <<registryVars, storageFiles, threads, pending_requests, socketio, cacheVars,
                   serverVars, now>>

SubmitBody == \E b \in Bodies : SubmitMessage(b, EmptyMap)

SubmitField ==
    \E b \in Bodies, n \in FieldNames :
        SubmitMessage(b, Put(EmptyMap, FIELD_HTML_REQUEST, n))

NextDispatch ==
    \/ SubmitBody
    \/ SubmitField
    \/ ServerReceive
    \/ Deliver

SpecDispatch == Init /\ [][NextDispatch]_vars

(***************************************************************************)
(* SpecLive: the browsing session with the clock.  The client's delivery   *)
(* callback handles every message that reaches it and time passes; the     *)
(* server may stay silent.  The client's monitor thread wakes every 10 s   *)
(* and changes nothing.                                                    *)
(***************************************************************************)
NextLive ==
    \/ Announce
    \/ AttachUI
    \/ Request
    \/ RequestList
    \/ ServerReceive
    \/ ClientReceive
    \/ Tick

SpecLive ==
    /\ Init
    /\ [][NextLive]_vars
    /\ WF_vars(ClientReceive)
    /\ WF_vars(Tick)

(***************************************************************************)
(* Claims.                                                                 *)
(***************************************************************************)
\* C1: a server_discovered event is emitted only for a hash that is not in
\* known_peers when the announce is handled; an announce handled for an
\* already-known peer emits no event and sets that peer's last_seen to the
\* time of handling.
C1_EventOnlyForNewPeer ==
    [][ /\ \A i \in DOMAIN emitted' :
              emitted'[i].type = "server_discovered"
                  => emitted'[i].hash \notin known_peers
        /\ \A h \in PeerHashes, a \in DisplayNames :
              ( /\ ReceivedAnnounce(h, a)
                /\ IsHtmlServerName(a)
                /\ PrettyHexRep(h) \in known_peers )
              => /\ emitted' = <<>>
                 /\ PrettyHexRep(h) \in DOMAIN discovered_servers'
                 /\ discovered_servers'[PrettyHexRep(h)].last_seen = now
      ]_vars

\* a known peer announced again at a later time, with the UI attached
C1_Witness ==
    /\ lastOp = "discovery_known"
    /\ socketio
    /\ now > 0
    /\ \E k \in known_peers : /\ k \in DOMAIN discovered_servers
                              /\ discovered_servers[k].last_seen = now
                              /\ k \in DOMAIN discovered_file.data
                              /\ discovered_file.data[k].last_seen = now

\* C2: after every completed operation on the registry (startup load,
\* _handle_discovery, remove_server) the keys of discovered_servers are
\* exactly the members of known_peers.
C2_RegistryMatchesKnownPeers == DOMAIN discovered_servers = known_peers

\* a restarted client that loaded a peer from discovered_servers.json
C2_Witness ==
    /\ lastOp = "startup"
    /\ known_peers # {}


\* the peer a key of pending_requests stands for, whatever its textual form
PeerOfKey(k) == FromHex(Replace(StripBrackets(k), <<":">>, <<>>))

\* the message carries a page body or file attachments
CarriesContent(m) ==
    \/ FIELD_HTML_CONTENT \in DOMAIN m.fields
    \/ FIELD_FILE_ATTACHMENTS \in DOMAIN m.fields

\* C3: once request_page(P, page) was called, handling an inbound message
\* from P that carries FIELD_HTML_CONTENT or FIELD_FILE_ATTACHMENTS leaves no
\* pending entry for P: the entry is removed under the key it was stored under.
C3_ReplyClearsPending ==
    [][ \A m \in DOMAIN net :
            ( ClientHandleMessage(m) /\ CarriesContent(m) )
            => \A k \in DOMAIN pending_requests' : PeerOfKey(k) # m.src ]_vars

\* the text reply of the server to a list request
IsTextIndex(m) ==
    /\ m.src = ServerHash
    /\ m.content = GenerateTextIndex(pages_dir)
    /\ DOMAIN m.fields = {}

\* the HTML reply of the server to a list request
IsHtmlIndex(m) ==
    /\ m.src = ServerHash
    /\ m.content = <<"File", " ", "Index">>
    /\ FIELD_HTML_CONTENT \in DOMAIN m.fields

\* C4: index round trip.  The client asked a registered server for its list,
\* the server answered with the HTML index and the text index, and the client
\* has handled both: the peer's pages are the sorted supported file names of
\* the pages directory and no LIST entry is pending for the peer.
C4_IndexRoundTrip ==
    [][ \A m \in DOMAIN net :
            ( /\ ClientHandleMessage(m)
              /\ IsTextIndex(m)
              /\ DOMAIN html_cache # {}
              /\ \A m2 \in DOMAIN net' : ~(m2.dst = ClientHash /\ IsHtmlIndex(m2))
              /\ PrettyHexRep(m.src) \in DOMAIN discovered_servers
              /\ \E k \in DOMAIN pending_requests :
                    PeerOfKey(k) = m.src /\ pending_requests[k].type = "list" )
            => /\ discovered_servers'[PrettyHexRep(m.src)].pages = GetPageList(pages_dir)
               /\ \A k \in DOMAIN pending_requests' :
                     PeerOfKey(k) = m.src => pending_requests'[k].type # "list" ]_vars

\* the name a request message asks the server for
RequestedName(m) ==
    IF FIELD_HTML_REQUEST \in DOMAIN m.fields THEN m.fields[FIELD_HTML_REQUEST]
    ELSE Strip(Tail(m.content))

\* the message is a page request: FIELD_HTML_REQUEST or a GET: body
IsPageRequest(m) ==
    \/ FIELD_HTML_REQUEST \in DOMAIN m.fields
    \/ StartsWith(m.content, <<"GET:">>)
    \/ StartsWith(m.content, <<"get:">>)

\* the payloads of a message: its HTML body and the bytes of its attachments
Payloads(m) ==
    (IF FIELD_HTML_CONTENT \in DOMAIN m.fields
     THEN {m.fields[FIELD_HTML_CONTENT]} ELSE {})
    \cup (IF FIELD_FILE_ATTACHMENTS \in DOMAIN m.fields
          THEN {m.fields[FIELD_FILE_ATTACHMENTS][i][2] :
                    i \in 1..Len(m.fields[FIELD_FILE_ATTACHMENTS])}
          ELSE {})

\* what the server would send for a file outside the pages directory
OutsidePayloads ==
    UNION { {StorageFiles[n], ProcessTemplate(ReadText(StorageFiles[n]), pages_dir, now)} :
                n \in DOMAIN StorageFiles }

\* C5: whatever name a request carries, the server never sends the content of
\* a file outside the pages directory, and a request whose name has directory
\* components and whose basename is not a file of the pages directory is
\* answered with the 404 HTML response.
C5_TraversalAnswered404 ==
    [][ \A m \in DOMAIN net, o2 \in SendOutcomes :
            ( ServerHandleMessage(m, "sent", o2, "none") /\ IsPageRequest(m) )
            => LET P == RequestedName(m)
               IN  /\ \A i \in DOMAIN outbox' : Payloads(outbox'[i]) \cap OutsidePayloads = {}
                   /\ ( /\ Basename(P) # P
                        /\ PagesEntry(Basename(P), pages_dir).kind # "file" )
                      => /\ Len(outbox') >= 1
                         /\ outbox'[1].content = <<"404:", " ">> \o Basename(P)
                         /\ outbox'[1].fields[FIELD_HTML_CONTENT] = ErrorHtml(Basename(P)) ]_vars

RECURSIVE Count(_, _)
\* str.count: the non-overlapping occurrences of p in s
Count(s, p) ==
    IF Len(p) = 0 \/ ~Contains(s, p) THEN 0
    ELSE 1 + Count(SubSeq(s, Find(s, p) + Len(p), Len(s)), p)

\* C6: every HTML artifact of the client's cache contains exactly one copy of
\* the click-interceptor script, whatever the received body: no, one or
\* several closing head or body tags, or a body that already has the script.
C6_ExactlyOneScript ==
    \A f \in DOMAIN html_cache :
        Count(html_cache[f], InjectScript(PrettyHexRep(ServerHash))) = 1

\* the cached artifact with the injected copies of the script taken out again:
\* before every closing head tag, else before every closing body tag, else at
\* the end
Uninject(cached, server_hash) ==
    LET script == InjectScript(server_hash)
    IN  IF Contains(cached, script \o HeadClose)
        THEN Replace(cached, script \o HeadClose, HeadClose)
        ELSE IF Contains(cached, script \o BodyClose)
        THEN Replace(cached, script \o BodyClose, BodyClose)
        ELSE IF EndsWith(cached, script)
        THEN SubSeq(cached, 1, Len(cached) - Len(script))
        ELSE cached

\* the file has no template placeholder and no CR line ending
Verbatim(content) ==
    /\ ~Contains(content, <<"{{timestamp}}">>)
    /\ ~Contains(content, <<"{{page_list}}">>)
    /\ ~Contains(content, <<"{{page_count}}">>)
    /\ ~Contains(content, <<"\r\n">>)
    /\ ~Contains(content, <<"\r">>)

\* the cache file of a page received at the current time
CacheName(page_name) == <<ToString(now), "_">> \o page_name

\* C7 as stated: the cached artifact of an HTML file of the pages directory,
\* with the injected script stripped, equals the original file content.
C7_RoundTripVerbatim ==
    \A f \in DOMAIN html_cache :
        f = CacheName(AboutHtml)
        => Uninject(html_cache[f], PrettyHexRep(ServerHash)) = pages_dir[AboutHtml]

\* C7, amended: the cached artifact of an HTML file of the pages directory,
\* with the injected script stripped, equals the text of the file with its
\* line endings normalised and its template placeholders substituted; it
\* equals the original content when the file has neither.
C7_RoundTripTemplated ==
    \A f \in DOMAIN html_cache :
        f = CacheName(AboutHtml)
        => LET stripped == Uninject(html_cache[f], PrettyHexRep(ServerHash))
               original == pages_dir[AboutHtml]
           IN  /\ stripped = ProcessTemplate(ReadText(original), pages_dir, now)
               /\ Verbatim(original) => stripped = original

C7_Witness ==
    /\ lastOp = "message_html"
    /\ CacheName(AboutHtml) \in DOMAIN html_cache
    /\ Contains(pages_dir[AboutHtml], HeadClose)
    /\ Contains(pages_dir[AboutHtml], <<"x">>)
    /\ Verbatim(pages_dir[AboutHtml])
    /\ html_cache[CacheName(AboutHtml)] # pages_dir[AboutHtml]
    /\ Uninject(html_cache[CacheName(AboutHtml)], PrettyHexRep(ServerHash))
         = pages_dir[AboutHtml]

\* C8 as stated: for a request that resolves to a file of the pages
\* directory, the payload sent (the FIELD_HTML_CONTENT value for .html and
\* .htm, the attachment bytes otherwise) equals the content of the file.
C8_PayloadVerbatim ==
    [][ \A m \in DOMAIN net, o2 \in SendOutcomes :
            ( /\ ServerHandleMessage(m, "sent", o2, "none")
              /\ IsPageRequest(m)
              /\ Basename(RequestedName(m)) \in DOMAIN pages_dir )
            => /\ Len(outbox') = 1
               /\ Payloads(outbox'[1]) = {pages_dir[Basename(RequestedName(m))]} ]_vars

\* C8, amended: for a request that resolves to a file of the pages directory,
\* the attachment sent for a file other than .html and .htm holds the name
\* and the content of the file; the FIELD_HTML_CONTENT value sent for an
\* .html or .htm file is the text of the file with its line endings
\* normalised and its template placeholders substituted, which is the content
\* of the file when it has neither.
C8_PayloadOfFile ==
    [][ \A m \in DOMAIN net, o2 \in SendOutcomes :
            ( /\ ServerHandleMessage(m, "sent", o2, "none")
              /\ IsPageRequest(m)
              /\ Basename(RequestedName(m)) \in DOMAIN pages_dir )
            => LET name == Basename(RequestedName(m))
                   original == pages_dir[name]
               IN  /\ Len(outbox') = 1
                   /\ outbox'[1].dst = m.src
                   /\ IF Lower(Ext(name)) \in {<<".html">>, <<".htm">>}
                      THEN /\ DOMAIN outbox'[1].fields = {FIELD_HTML_CONTENT}
                           /\ outbox'[1].fields[FIELD_HTML_CONTENT]
                                = ProcessTemplate(ReadText(original), pages_dir, now)
                           /\ Verbatim(original)
                              => outbox'[1].fields[FIELD_HTML_CONTENT] = original
                      ELSE /\ DOMAIN outbox'[1].fields = {FIELD_FILE_ATTACHMENTS}
                           /\ outbox'[1].fields[FIELD_FILE_ATTACHMENTS]
                                = << <<name, original>> >> ]_vars

C8_Witness ==
    /\ lastOp = "serve_html"
    /\ Len(outbox) = 1
    /\ Verbatim(pages_dir[AboutHtml])
    /\ Len(pages_dir[AboutHtml]) = MaxPieces
    /\ outbox[1].fields[FIELD_HTML_CONTENT] = pages_dir[AboutHtml]
    /\ \E m \in DOMAIN net : m = outbox[1]

\* C9: at most one pending entry exists per peer, whatever textual form the
\* hash was supplied in (with or without angle brackets, lxmf:// prefix or
\* ':' separators).
C9_OnePendingPerPeer ==
    \A k1, k2 \in DOMAIN pending_requests :
        PeerOfKey(k1) = PeerOfKey(k2) => k1 = k2

\* C10: a request that fails after its hash was parsed (the identity is not
\* recalled, or the handoff raises) leaves no pending entry for the peer,
\* returns a failure indication to the caller and emits no event.
C10_FailedRequestCleansUp ==
    [][ \A h \in HashInputs, o \in {"nopath", "error"} :
            /\ \A p \in PageInputs :
                  ( RequestPage(h, p, o) /\ PeerOfKey(RequestKey(h)) # ValueError )
                  => /\ \A k \in DOMAIN pending_requests' :
                           PeerOfKey(k) # PeerOfKey(RequestKey(h))
                     /\ returned' = "False"
                     /\ emitted' = <<>>
            /\ ( RequestPageList(h, o) /\ PeerOfKey(h) # ValueError )
               => /\ \A k \in DOMAIN pending_requests' : PeerOfKey(k) # PeerOfKey(h)
                  /\ returned' = "False"
                  /\ emitted' = <<>> ]_vars


\* the keys request_page and _request_page_list store entries under
PendingKeys ==
    { RequestKey(h) : h \in {x \in HashInputs : PeerOfKey(RequestKey(x)) # ValueError} }

\* C11: every pending entry is eventually removed from pending_requests, also
\* when no matching response ever arrives: an unanswered entry that has aged
\* is swept and does not stay forever.
C11_PendingEventuallySwept ==
    \A k \in PendingKeys :
        (k \in DOMAIN pending_requests /\ pending_requests[k].time < now)
        ~> (k \notin DOMAIN pending_requests)


\* the paths of _handle_message, as lastOp names them
ServerOps == {"serve_index", "serve_404", "serve_html", "serve_error",
              "serve_file", "server_ack", "server_help"}

\* the sends at the positions kept, in order
RECURSIVE Keep(_, _, _)
Keep(sends, kept, i) ==
    IF i > Len(sends) THEN <<>>
    ELSE (IF i \in kept THEN <<sends[i]>> ELSE <<>>) \o Keep(sends, kept, i + 1)

\* what reaches the substrate of the messages a handler sends in order, each
\* send succeeding or failing on its own
Delivered(sends) == { Keep(sends, kept, 1) : kept \in SUBSET DOMAIN sends }

\* the server step has the effect of _serve_page for this sender and name
ServesAs(sender_hash, page_name_arg) ==
    \E r \in {ServeResult(sender_hash, page_name_arg, "sent", "sent")} :
        /\ lastOp' = r.op
        /\ returned' = r.returned
        /\ outbox' \in Delivered(r.outbox)
        /\ access_log' = access_log \o r.lines
        /\ requests_served' = requests_served + r.served

\* C12: when an inbound message carries FIELD_HTML_REQUEST, the server serves
\* the page the field names, whatever the body says (list, ping, a GET: for
\* another page): the body is read only when the field is absent.
C12_FieldNamesThePage ==
    [][ lastOp' \in ServerOps =>
            \A m \in {inbox'[1]} :
                FIELD_HTML_REQUEST \in DOMAIN m.fields
                => ServesAs(m.src, m.fields[FIELD_HTML_REQUEST]) ]_vars

C12_Witness ==
    /\ lastOp = "serve_html"
    /\ Len(inbox) = 1
    /\ inbox[1].content = <<"list">>
    /\ FIELD_HTML_REQUEST \in DOMAIN inbox[1].fields
    /\ inbox[1].fields[FIELD_HTML_REQUEST] = AboutHtml
    /\ Len(outbox) = 1
    /\ outbox[1].content = <<"Serving:", " ">> \o AboutHtml

\* the help text goes out as one plain message
SendsHelp(m) ==
    /\ outbox' \in Delivered(SendSimpleMessage(m.src, HelpText, "sent"))
    /\ UNCHANGED <<requests_served, access_log>>

\* the ack text goes out as one plain message
SendsAck(m) ==
    /\ outbox' \in Delivered(SendSimpleMessage(m.src, AckText, "sent"))
    /\ UNCHANGED <<requests_served, access_log>>

\* C13: for a message without FIELD_HTML_REQUEST the body, trimmed and
\* lowercased, selects exactly one action: an index command serves the index,
\* announce, hello or ping gets the ack text, a body that after trimming
\* starts with GET: or get: serves the page the remainder names, and any
\* other body gets the help text.
C13_BodySelectsAction ==
    [][ lastOp' \in ServerOps =>
            \A m \in {inbox'[1]} :
                FIELD_HTML_REQUEST \notin DOMAIN m.fields
                => LET trimmed == Strip(m.content)
                       body == Lower(trimmed)
                   IN  IF body \in IndexCommands
                       THEN ServesAs(m.src, <<"index">>)
                       ELSE IF body \in AckCommands
                       THEN SendsAck(m)
                       ELSE IF \/ StartsWith(trimmed, <<"GET:">>)
                               \/ StartsWith(trimmed, <<"get:">>)
                       THEN ServesAs(m.src, Strip(Tail(trimmed)))
                       ELSE SendsHelp(m) ]_vars

\* the name is empty or one of index, _index, _list, list in any case
IndexLike(name) == Len(name) = 0 \/ Lower(name) \in IndexNames

\* the message asks for the index: by its field, by a GET: body or by a command
AsksForIndex(m) ==
    IF FIELD_HTML_REQUEST \in DOMAIN m.fields
    THEN IndexLike(m.fields[FIELD_HTML_REQUEST])
    ELSE \/ Strip(Lower(m.content)) \in IndexCommands
         \/ /\ StartsWith(m.content, <<"GET:">>) \/ StartsWith(m.content, <<"get:">>)
            /\ IndexLike(Strip(Tail(m.content)))

ServeOps == {"serve_index", "serve_404", "serve_html", "serve_error", "serve_file"}

\* C15: a request for a name P that is not index-like and whose basename is
\* not a file of the pages directory is answered with one HTML response in
\* FIELD_HTML_CONTENT whose body text is 404: P, is logged with one line
\* ending in FAILED, and no file content is sent.
C15_MissingAnswered404 ==
    [][ lastOp' \in ServerOps =>
            \A m \in {inbox'[1]} :
                ( /\ IsPageRequest(m)
                  /\ ~IndexLike(RequestedName(m))
                  /\ PagesEntry(Basename(RequestedName(m)), pages_dir).kind # "file" )
                => /\ \E html \in {outbox'[i].fields[FIELD_HTML_CONTENT] :
                                       i \in {j \in DOMAIN outbox' :
                                                FIELD_HTML_CONTENT \in DOMAIN outbox'[j].fields}}
                                   \cup {<<>>} :
                          outbox' \in Delivered(
                              <<Message(m.src, ServerHash,
                                        <<"404:", " ">> \o RequestedName(m),
                                        Put(EmptyMap, FIELD_HTML_CONTENT, html))>>)
                   /\ Len(access_log') = Len(access_log) + 1
                   /\ access_log'[Len(access_log')].status = "FAILED" ]_vars

\* C16: requests_served counts the requests served: an index, an HTML page,
\* a file attachment and a 404 each increment it by one.
C16_EveryServedRequestCounted ==
    [][ lastOp' \in {"serve_index", "serve_404", "serve_html", "serve_file"}
        => requests_served' = requests_served + 1 ]_vars

\* C17: every invocation of _serve_page adds exactly one line to the access
\* log, never none and never two, also when the handling raises after the
\* line was written, and the timestamps of the log never decrease.
C17_OneLinePerInvocation ==
    [][ lastOp' \in ServeOps
        => /\ Len(access_log') = Len(access_log) + 1
           /\ \A i \in 1..Len(access_log) : access_log'[i] = access_log[i]
           /\ \A i \in 1..(Len(access_log') - 1) :
                  access_log'[i].time <= access_log'[i + 1].time ]_vars

\* the successful announces up to w seconds after the construction
AnnouncedWithin(w) ==
    Cardinality({i \in DOMAIN announces :
                    announces[i].ok /\ announces[i].time <= StartTime + w})

\* C18: the server announces once when it registers its delivery
\* destination; afterwards the loop wakes every 10 s and announces exactly
\* when auto-announce is enabled and now - last_announce >= T, and a
\* successful announce moves last_announce to now; with T = 60 and no failed
\* announce the 150 seconds after startup hold 2 or 3 announces.
C18_AnnounceSchedule ==
    [][ /\ Len(announces) >= 1 /\ announces[1].time = StartTime
        /\ announce_pc = "idle" => Len(announces) = 1
        /\ lastOp' = "announce_sleep" => now' - now \in WakePeriod..(WakePeriod + 5)
        /\ lastOp' = "announce_check" =>
               IF auto_announce_enabled /\ now - last_announce >= auto_announce_interval
               THEN /\ Len(announces') = Len(announces) + 1
                    /\ announces'[Len(announces')].time = now
                    /\ last_announce' = IF announces'[Len(announces')].ok
                                        THEN now ELSE last_announce
               ELSE UNCHANGED <<announces, last_announce>>
        /\ ( /\ auto_announce_interval' = 60
              /\ auto_announce_enabled'
              /\ announce_pc' # "idle"
              /\ \A i \in DOMAIN announces' : announces'[i].ok )
           => /\ AnnouncedWithin(150)' <= 3
              /\ now' >= StartTime + 150 => AnnouncedWithin(150)' >= 2 ]_vars

C18_Witness ==
    /\ auto_announce_interval = 60
    /\ auto_announce_enabled
    /\ lastOp = "announce_check"
    /\ now >= StartTime + 150
    /\ \A i \in DOMAIN announces : announces[i].ok
    /\ AnnouncedWithin(150) = 3
    /\ last_announce = announces[3].time
    /\ announces[2].time - announces[1].time >= 60

\* C19: in every reachable state of the server the announce interval is at
\* least 60 seconds, whether it comes from the default, from config.json or
\* from set_announce_interval, which refuses a smaller value with False and
\* leaves the interval and config.json as they were.
C19_IntervalAtLeastMinimum ==
    [][ /\ auto_announce_interval >= 60
        /\ auto_announce_interval' >= 60
        /\ (lastOp' = "set_interval" /\ returned' = "False")
           => UNCHANGED <<auto_announce_interval, config_file>> ]_vars

\* the announce is from another destination and its app-data decodes to a
\* display name with the token [HTML] or the substring HTML
NamesHtmlServer(h, a) ==
    /\ h # ClientHash
    /\ a \in DisplayNames
    /\ Contains(a, <<"[", "HTML", "]">>) \/ Contains(a, <<"HTML">>)

StrippedName(a) ==
    IF Len(Strip(Replace(a, <<"[", "HTML", "]">>, <<>>))) = 0
    THEN <<"Unknown Server">>
    ELSE Strip(Replace(a, <<"[", "HTML", "]">>, <<>>))

\* C21: every insertion of a new peer by an announce comes with exactly one
\* server_discovered event that carries the peer's hash and its name without
\* [HTML] (Unknown Server when nothing is left), and the new peer has no
\* pages; also for an announce handled before the UI channel is attached.
C21_InsertEmitsOneEvent ==
    [][ \A h \in AllHashes, a \in AppData :
            ( /\ ReceivedAnnounce(h, a)
              /\ DOMAIN discovered_servers' # DOMAIN discovered_servers )
            => \E k \in DOMAIN discovered_servers' \ DOMAIN discovered_servers :
                  /\ discovered_servers'[k].pages = <<>>
                  /\ discovered_servers'[k].name = StrippedName(a)
                  /\ emitted' = <<[type |-> "server_discovered", hash |-> k,
                                   name |-> StrippedName(a)]>> ]_vars

\* lowercase hex bytes
CanonicalHexBytes == {"a1", "b2", "c3", "d4", "e5", "f6"}

\* C22: every key of discovered_servers is the canonical lowercase hex of
\* the destination hash, without < and > around it.
C22_KeysAreCanonicalHex ==
    \A k \in DOMAIN discovered_servers :
        \A i \in DOMAIN k : k[i] \in CanonicalHexBytes

\* C23: handling an announce sends no message and creates or changes no
\* pending request; for a peer that is already known it changes nothing in
\* the registry but that peer's last_seen: its name, its pages and every
\* other peer stay as they were.
C23_AnnounceFrame ==
    [][ \A h \in AllHashes, a \in AppData :
            ReceivedAnnounce(h, a)
            => /\ outbox' = <<>>
               /\ net' = net
               /\ pending_requests' = pending_requests
               /\ PrettyHexRep(h) \in known_peers
                  => /\ known_peers' = known_peers
                     /\ DOMAIN discovered_servers' = DOMAIN discovered_servers
                     /\ \A k \in DOMAIN discovered_servers :
                            /\ discovered_servers'[k].name = discovered_servers[k].name
                            /\ discovered_servers'[k].pages = discovered_servers[k].pages
                            /\ k # PrettyHexRep(h)
                               => discovered_servers'[k] = discovered_servers[k] ]_vars

C23_Witness ==
    /\ lastOp = "discovery_known"
    /\ now >= 1
    /\ DOMAIN pending_requests # {}
    /\ DOMAIN net # {}
    /\ Cardinality(DOMAIN discovered_servers) = 2
    /\ \E k \in DOMAIN discovered_servers, j \in DOMAIN discovered_servers :
           /\ discovered_servers[k].last_seen = now
           /\ discovered_servers[j].last_seen < now

\* the paths of the client's _handle_message, as lastOp names them
ClientOps == {"message_list", "message_html", "message_file",
              "message_file_error", "message_text"}

IsListReply(m) ==
    /\ Contains(m.content, <<"Available", " ", "Pages">>)
    /\ \E k \in {m.src, PrettyHexRep(m.src)} :
           k \in DOMAIN pending_requests /\ pending_requests[k].type = "list"

\* C25: an inbound message with neither FIELD_HTML_CONTENT nor
\* FIELD_FILE_ATTACHMENTS that is no list reply for a pending LIST request is
\* ancillary text: pending_requests, discovered_servers, history and both
\* cache directories stay as they were and no event is emitted.
C25_AncillaryTextFrame ==
    [][ lastOp' \in ClientOps =>
            \A m \in {inbox'[1]} :
                ( /\ FIELD_HTML_CONTENT \notin DOMAIN m.fields
                  /\ FIELD_FILE_ATTACHMENTS \notin DOMAIN m.fields
                  /\ ~IsListReply(m) )
                => /\ UNCHANGED <<pending_requests, discovered_servers, history,
                                  html_cache, files_cache>>
                   /\ emitted' = <<>> ]_vars

C25_Witness ==
    /\ lastOp = "message_text"
    /\ inbox[1].content = <<"hello">>
    /\ FIELD_HTML_REQUEST \in DOMAIN inbox[1].fields
    /\ DOMAIN pending_requests # {}
    /\ Len(history) = HistoryLimit - 1

\* a (name, bytes) pair: two elements, the second one a bytes payload
NameBytesPair(attachment) == WellFormed(attachment) /\ ~WriteRaises(attachment)

\* C26: for a message with FIELD_FILE_ATTACHMENTS (and no FIELD_HTML_CONTENT)
\* every (name, bytes) pair of the sequence is written unmodified into the
\* files cache, gets one history entry and one file_received event, in
\* sequence order; any other element is skipped and the attachments after it
\* are still processed.
C26_EveryAttachmentStored ==
    [][ lastOp' \in ClientOps =>
            \A m \in {inbox'[1]} :
                ( /\ FIELD_FILE_ATTACHMENTS \in DOMAIN m.fields
                  /\ FIELD_HTML_CONTENT \notin DOMAIN m.fields
                  /\ ~IsListReply(m) )
                => LET pairs == SelectSeq(m.fields[FIELD_FILE_ATTACHMENTS],
                                          NameBytesPair)
                       server_hash == PrettyHexRep(m.src)
                       server_name == ServerNameOf(server_hash)
                   IN  /\ files_cache' = StoreFiles(files_cache, pairs)
                       /\ history' =
                            Trimmed(history
                                    \o FileHistory(pairs, server_hash, server_name))
                       /\ emitted' = FileEvents(pairs, server_hash, server_name) ]_vars

\* the name a receipt event carries: the page of html_received, the file of
\* file_received
EventName(e) == IF e.type = "html_received" THEN e.page ELSE e.filename

ReceiptOps == {"message_html", "message_file", "message_file_error"}

\* C27: handling one message with n successful receipts (an HTML page, or n
\* stored attachments) appends exactly n history entries, one per receipt in
\* receipt order, and keeps at most 100 entries: the newest ones, the older
\* entries in their previous order.
C27_HistoryIsRecentReceipts ==
    [][ lastOp' \in ReceiptOps =>
            LET n == Len(emitted')
                kept == Len(history') - n
                gone == Len(history) - kept
            IN  /\ Len(history') <= HistoryLimit
                /\ Len(history') =
                     IF Len(history) + n > HistoryLimit THEN HistoryLimit
                     ELSE Len(history) + n
                /\ \A i \in 1..n :
                     /\ history'[kept + i].page = EventName(emitted'[i])
                     /\ history'[kept + i].server = emitted'[i].server
                /\ \A j \in 1..kept : history'[j] = history[gone + j] ]_vars

C27_Witness ==
    /\ lastOp = "message_file"
    /\ Len(emitted) = 2
    /\ Len(history) = HistoryLimit
    /\ history[1] = OldEntry(2)
    /\ history[HistoryLimit - 1].page = PhotoPng
    /\ history[HistoryLimit].page = NotesConf

\* C28: the bookmark list never holds two bookmarks with the same peer hash.
C28_OneBookmarkPerHash ==
    \A i, j \in DOMAIN bookmarks : bookmarks[i].hash = bookmarks[j].hash => i = j

\* C29: a start that finds discovered_servers.json unreadable or malformed
\* begins with an empty registry and an empty known_peers, one that finds
\* bookmarks.json or history.json so begins with empty bookmarks or empty
\* history; the start goes on, and what an intact file holds is loaded
\* whatever the state of the other two.
C29_DamagedFileStartsEmpty ==
    [][ lastOp' = "startup" =>
            /\ discovered_file.state \in Damage
               => discovered_servers' = EmptyMap /\ known_peers' = {}
            /\ bookmarks_file.state \in Damage => bookmarks' = <<>>
            /\ history_file.state \in Damage => history' = <<>>
            /\ discovered_file.state = "ok"
               => /\ discovered_servers' = discovered_file.data
                  /\ known_peers' = DOMAIN discovered_file.data
            /\ bookmarks_file.state = "ok" => bookmarks' = bookmarks_file.data
            /\ history_file.state = "ok" => history' = history_file.data ]_vars

C29_Witness ==
    /\ lastOp = "startup"
    /\ history_file.state = "malformed"
    /\ history_file.data # <<>>
    /\ history = <<>>
    /\ discovered_file.state = "unreadable"
    /\ discovered_file.data # EmptyMap
    /\ discovered_servers = EmptyMap
    /\ known_peers = {}
    /\ bookmarks_file.state = "ok"
    /\ bookmarks # <<>>

\* C30: _get_page_list returns exactly the entries of the pages directory
\* whose lowercased extension is in the supported table, in strictly
\* ascending lexicographic order, so none of them twice.
C30_ListIsSupportedSorted ==
    lastOp = "get_page_list" =>
        /\ {returned[i] : i \in DOMAIN returned} =
              {f \in DOMAIN pages_dir : Lower(Ext(f)) \in SupportedExtensions}
        /\ \A i, j \in DOMAIN returned :
              i < j => NameLess(returned[i], returned[j])

C30_Witness ==
    /\ lastOp = "get_page_list"
    /\ {<<"LOGO", ".PNG">>, AboutHtml, NotesConf, <<".html">>, <<"readme">>}
          \subseteq DOMAIN pages_dir
    /\ Len(returned) >= 3
    /\ returned[1] = <<"LOGO", ".PNG">>
    /\ returned[2] = AboutHtml

\* the positions of the index where the item of file f starts
ItemsOf(html, f) ==
    { i \in 1..(Len(html) - Len(f) - 1) :
        /\ html[i] = "<a href="
        /\ SubSeq(html, i + 1, i + Len(f)) = f
        /\ html[i + Len(f) + 1] = ">" }

\* the positions of the headings of the index
Headings(html) == { i \in 1..(Len(html) - 1) : html[i] = "<h3>" }

\* the heading an index position stands under, "none" before the first
HeadingOver(html, i) ==
    IF \E h \in Headings(html) : h < i
    THEN html[(CHOOSE h \in Headings(html) :
                 h < i /\ \A g \in Headings(html) : g < i => g <= h) + 1]
    ELSE "none"

FixedHeadings == <<"HTML Pages", "Text Files", "Images", "Documents", "Archives">>

\* C31: the generated HTML index has one item for every file of the page
\* list and no other item, each under one of the headings HTML Pages, Text
\* Files, Images, Documents, Archives, and the headings shown appear once
\* each in that order.
C31_IndexListsEveryFileOnce ==
    lastOp = "generate_index" =>
        LET files == GetPageList(pages_dir)
            shown == Headings(returned)
        IN  /\ \A k \in DOMAIN files :
                  /\ Cardinality(ItemsOf(returned, files[k])) = 1
                  /\ \A i \in ItemsOf(returned, files[k]) :
                        \E n \in 1..5 : HeadingOver(returned, i) = FixedHeadings[n]
            /\ Cardinality({i \in DOMAIN returned : returned[i] = "<li>"}) = Len(files)
            /\ \A g \in shown : \E n \in 1..5 : returned[g + 1] = FixedHeadings[n]
            /\ \A g, h \in shown :
                  g < h => \E m, n \in 1..5 : /\ m < n
                                              /\ returned[g + 1] = FixedHeadings[m]
                                              /\ returned[h + 1] = FixedHeadings[n]

C31_Witness ==
    /\ lastOp = "generate_index"
    /\ Cardinality(Headings(returned)) = 5
    /\ NotesConf \in DOMAIN pages_dir
    /\ <<"readme">> \in DOMAIN pages_dir
    /\ Len(GetPageList(pages_dir)) >= 6

\* the send operations that ended without the identity of the destination
GaveUpOps == {"send_html_nopath", "send_file_nopath", "send_simple_message_nopath",
              "request_page_nopath", "request_list_nopath"}

HandedOverOps == {"send_html_sent", "send_file_sent", "send_simple_message_sent",
                  "request_page_sent", "request_list_sent"}

\* C32: every send operation ends; it hands over one message, or none and
\* then only after it has waited at least 15 s for the path it requested;
\* nothing is queued or sent again.
C32_SendWaitsThenOneOrNone ==
    [][ /\ lastOp' \in HandedOverOps
           => Len(outbox') = 1 /\ net' = BagAddAll(net, outbox')
        /\ lastOp' \in GaveUpOps
           => /\ outbox' = <<>>
              /\ net' = net
              /\ now' - now >= 15 ]_vars

\* the last announce attempt raised
LastAttemptFailed == ~announces[Len(announces)].ok

\* C33: an announce attempt that raises leaves last_announce where it was and
\* the loop goes on to its sleep; at the wake-up after a failed attempt the
\* enabled loop attempts again, and a successful attempt moves last_announce
\* to its time, so periodic announcing resumes.
C33_FailedAnnounceDoesNotStop ==
    [][ lastOp' = "announce_check" =>
            /\ announce_pc' = "sleep"
            /\ ( Len(announces') > Len(announces) /\ LastAttemptFailed' )
               => last_announce' = last_announce
            /\ ( LastAttemptFailed /\ auto_announce_enabled )
               => /\ Len(announces') = Len(announces) + 1
                  /\ announces'[Len(announces')].time = now
                  /\ ~LastAttemptFailed' => last_announce' = now ]_vars

C33_Witness ==
    /\ lastOp = "announce_check"
    /\ Len(announces) >= 4
    /\ announces[1].ok
    /\ \E k \in 2..(Len(announces) - 2) :
          /\ ~announces[k].ok
          /\ announces[k + 1].ok
          /\ announces[k + 1].time - announces[k].time <= WakePeriod + 5
          /\ announces[k + 2].ok
          /\ announces[k + 2].time - announces[k + 1].time >= auto_announce_interval
    /\ last_announce = announces[Len(announces)].time

\* C34: whenever neither the announce thread nor the UI thread is inside its
\* operation on h, h is in known_peers exactly when it has a record in
\* discovered_servers, whatever the interleaving of the two was.
C34_RaceKeepsRegistryInvariant ==
    (threads.discovery = "idle" /\ threads.remove = "idle")
        => (RaceHash \in known_peers <=> RaceHash \in DOMAIN discovered_servers)


\* the message is the server's response to a request for this page
Answers(m, page) ==
    \/ /\ FIELD_HTML_CONTENT \in DOMAIN m.fields
       /\ m.content = <<"Serving:", " ">> \o page
    \/ /\ FIELD_FILE_ATTACHMENTS \in DOMAIN m.fields
       /\ \E i \in 1..Len(m.fields[FIELD_FILE_ATTACHMENTS]) :
              m.fields[FIELD_FILE_ATTACHMENTS][i][1] = page

C36_SuccessOnlyIfHandedOver ==
    [][ (lastOp' \in {"serve_html", "serve_file"} /\ outbox' = <<>>)
        => /\ access_log'[Len(access_log')].status = "FAILED"
           /\ requests_served' = requests_served ]_vars


\* the names _get_page_list returns
Listed == {GetPageList(pages_dir)[i] : i \in DOMAIN GetPageList(pages_dir)}

\* C37: every file the server sends in FIELD_FILE_ATTACHMENTS is one that
\* _get_page_list lists: an existing entry of the pages directory whose
\* extension is not in supported_extensions is not sent.
C37_OnlyListedFilesSent ==
    [][ lastOp' \in ServeOps =>
            \A i \in DOMAIN outbox' :
                FIELD_FILE_ATTACHMENTS \in DOMAIN outbox'[i].fields
                => \A j \in DOMAIN outbox'[i].fields[FIELD_FILE_ATTACHMENTS] :
                       outbox'[i].fields[FIELD_FILE_ATTACHMENTS][j][1] \in Listed ]_vars


\* the file lies in the files cache directory or below it
InsideCache(path) ==
    LET cache == Resolved(Split(CachePath, <<"/">>), <<>>)
    IN  /\ Len(path) > Len(cache)
        /\ SubSeq(path, 1, Len(cache)) = cache

\* C38: every file the attachment loop has written lies inside the files
\* cache directory, whatever name the peer supplied.
C38_WritesStayInCache ==
    \A filename \in DOMAIN files_cache : InsideCache(AttachmentPath(filename))


\* the entry of the i-th page received is in self.history
Kept(i) == \E j \in DOMAIN history : history[j].page = <<"new", ToString(i)>>

\* C39: an entry the delivery thread has appended stays in the history while
\* a UI thread runs _save_data: the trim drops none of the entries appended in
\* this run.
C39_AppendedEntryKept ==
    \A i \in 1..nreq : (i < nreq \/ threads.deliver # "append") => Kept(i)


\* the text of a response body after its prefix
AfterPrefix(content, prefix) == SubSeq(content, Len(prefix) + 1, Len(content))

\* C40: the page name recorded for a received HTML response, in the history
\* entry, the html_received event and the cache filename, is the name of the
\* request the response answers: P for Serving: P, P for 404: P, and an index
\* name for the index.
C40_RecordedNameIsRequested ==
    [][ lastOp' = "message_html" =>
            \A m \in {inbox'[1]} :
                \A recorded \in {history'[Len(history')].page} :
                    /\ StartsWith(m.content, <<"Serving:", " ">>)
                       => recorded = AfterPrefix(m.content, <<"Serving:", " ">>)
                    /\ StartsWith(m.content, <<"404:", " ">>)
                       => recorded = AfterPrefix(m.content, <<"404:", " ">>)
                    /\ m.content = <<"File", " ", "Index">>
                       => recorded \in IndexNames
                    /\ socketio
                       => /\ emitted'[1].page = recorded
                          /\ emitted'[1].filename = <<ToString(now), "_">> \o recorded ]_vars

============================================================================
